---------------------------- MODULE Spec2Model ----------------------------
(***************************************************************************)
(* Verification model of the school timetabling engine (app-horarios):     *)
(* the pre-solve validator (domain/core/validate.py), the problem compiler *)
(* and CP-SAT model builder with its reconstructor (domain/solver/solve.py)*)
(* and the service pipeline that chains them (services/solver_service.py). *)
(*                                                                         *)
(* Conventions.  Python tuples/lists are sequences; frozensets are sets;   *)
(* Optional[T] is a sequence of length <= 1 (None is <<>>); dicts are      *)
(* functions.  Slot indices are positions in the teaching_slots sequence   *)
(* counted from 1 (Python counts them from 0).  The CP-SAT solver is an    *)
(* external component: it returns any valuation of the decision variables  *)
(* that satisfies every constraint the code adds, or no valuation at all.  *)
(***************************************************************************)
EXTENDS Integers, Sequences, FiniteSets, TLC

VARIABLES problem, pc, report, outcome, solution, values,
          _projects, _lock, clock, calls, ncalls, ghost

\* The state of one call of the solver service; values holds solver.Value
\* of the x, y and a variables once the solver has answered.
solvervars == <<problem, pc, report, outcome, solution, values>>

\* The project repository, the clock, the calls under way and the record
\* of what the callers asked for.
storevars == <<_projects, _lock, clock, calls, ncalls, ghost>>

vars == <<solvervars, storevars>>

-----------------------------------------------------------------------------
(* Generic helpers for Python idioms                                       *)

None == <<>>

Some(v) == <<v>>

IsNone(o) == o = <<>>

Val(o) == o[1]

\* Python truthiness of an Optional collection / string: None, "" and
\* empty collections are falsy.
TruthySeq(o) == (~IsNone(o)) /\ Val(o) # <<>>

TruthySet(o) == (~IsNone(o)) /\ Val(o) # {}

TruthyStr(o) == (~IsNone(o)) /\ Val(o) # ""

RECURSIVE Concat(_)
Concat(ss) == IF ss = <<>> THEN <<>> ELSE Head(ss) \o Concat(Tail(ss))

RECURSIVE SumSeq(_)
SumSeq(s) == IF s = <<>> THEN 0 ELSE Head(s) + SumSeq(Tail(s))

Range(s) == {s[i] : i \in 1..Len(s)}

\* A list with one message when the condition holds (errors.append under if).
Msg(cond, m) == IF cond THEN <<m>> ELSE <<>>

\* Iteration over a set visits its elements in some order; the order does
\* not influence any result modelled here, so a fixed one is used.
RECURSIVE SetToSeq(_)
SetToSeq(S) == IF S = {} THEN <<>>
               ELSE LET x == CHOOSE y \in S : TRUE
                    IN <<x>> \o SetToSeq(S \ {x})

\* Keys of a dict built by inserting the ids of seq in order: distinct ids
\* in order of first appearance.
RECURSIVE DistinctInOrder(_)
DistinctInOrder(s) ==
    IF s = <<>> THEN <<>>
    ELSE LET r == DistinctInOrder(SubSeq(s, 1, Len(s) - 1))
             x == s[Len(s)]
         IN IF x \in Range(r) THEN r ELSE Append(r, x)

-----------------------------------------------------------------------------
(* schema.py                                                               *)

Slot(d, p) == [day |-> d, period |-> p]

\* Calendar.all_slots: days in declared order, periods 1..periods_per_day.
all_slots(cal) ==
    Concat([d \in 1..Len(cal.days) |->
              [p \in 1..cal.periods_per_day |-> Slot(cal.days[d], p)]])

\* Calendar.teaching_slots
teaching_slots(cal) ==
    SelectSeq(all_slots(cal), LAMBDA s : s \notin cal.blocked_slots)

\* Teacher.is_available / Room.is_available
is_available(x, slot) == slot \notin x.unavailable

\* TimetableProblem.index_*: {e.id: e for e in seq}; the last entry with an
\* id wins.
IndexById(seq) ==
    [id \in {seq[i].id : i \in 1..Len(seq)} |->
        seq[CHOOSE i \in 1..Len(seq) :
               /\ seq[i].id = id
               /\ \A j \in (i + 1)..Len(seq) : seq[j].id # id]]

index_groups(p) == IndexById(p.groups)

index_subjects(p) == IndexById(p.subjects)

index_teachers(p) == IndexById(p.teachers)

index_rooms(p) == IndexById(p.rooms)

-----------------------------------------------------------------------------
(* validate.py: every helper returns the messages it appends, in order.    *)
(* A message is a tuple <<code, subject...>> standing for the formatted    *)
(* text.                                                                   *)

Rep(e, w) == [errors |-> e, warnings |-> w]

PeriodsWarnThreshold == 12

\* A slot's two range checks (day in Calendar.days, period in range), used
\* for blocked slots and for teacher / room unavailability.
SlotRangeErrors(cal, s, who) ==
    Msg(s.day \notin Range(cal.days), <<"slot_day_unknown", who, s>>)
    \o Msg(s.period < 1 \/ s.period > cal.periods_per_day,
           <<"slot_period_out_of_range", who, s>>)

_validate_calendar(cal) ==
    IF cal.days = <<>>
    THEN Rep(<<(<<"days_empty">>)>>, <<>>)
    ELSE Rep(
        Msg(cal.periods_per_day <= 0, <<"periods_per_day_not_positive">>)
        \o (LET bs == SetToSeq(cal.blocked_slots)
            IN Concat([i \in 1..Len(bs) |->
                         SlotRangeErrors(cal, bs[i], "calendar")]))
        \o Msg(Len(teaching_slots(cal)) = 0, <<"no_teaching_slots">>),
        Msg(cal.periods_per_day > PeriodsWarnThreshold,
            <<"periods_per_day_high">>))

\* dupes(ids): the ids seen more than once.
dupes(ids) == {ids[i] : i \in {j \in 1..Len(ids) :
                                  \E h \in 1..(j - 1) : ids[h] = ids[j]}}

Ids(seq) == [i \in 1..Len(seq) |-> seq[i].id]

_validate_uniqueness(p) ==
    Rep(Msg(dupes(Ids(p.groups)) # {}, <<"dup_groups", dupes(Ids(p.groups))>>)
        \o Msg(dupes(Ids(p.subjects)) # {},
               <<"dup_subjects", dupes(Ids(p.subjects))>>)
        \o Msg(dupes(Ids(p.teachers)) # {},
               <<"dup_teachers", dupes(Ids(p.teachers))>>)
        \o Msg(dupes(Ids(p.rooms)) # {}, <<"dup_rooms", dupes(Ids(p.rooms))>>),
        <<>>)

\* str.strip() on the strings the model uses: an id or a name made of blanks
\* strips to "", a name loses the blanks around it.
strip(s) ==
    IF s \in {" ", "  "} THEN ""
    ELSE IF s = " Demo 2 " THEN "Demo 2"
    ELSE s

_validate_min_max_pair(ctx, min_name, min_val, max_name, max_val) ==
    Msg((~IsNone(min_val)) /\ Val(min_val) < 0, <<"negative", ctx, min_name>>)
    \o Msg((~IsNone(max_val)) /\ Val(max_val) < 0, <<"negative", ctx, max_name>>)
    \o Msg((~IsNone(min_val)) /\ (~IsNone(max_val)) /\ Val(min_val) > Val(max_val),
           <<"min_gt_max", ctx, min_name>>)

GroupEntityErrors(g) ==
    Msg(strip(g.id) = "", <<"group_id_empty">>)
    \o Msg(g.size <= 0, <<"group_size_not_positive", g.id>>)

SubjectEntityErrors(sub) ==
    Msg(strip(sub.id) = "", <<"subject_id_empty">>)
    \o Msg((~IsNone(sub.max_per_day)) /\ Val(sub.max_per_day) <= 0,
           <<"max_per_day_not_positive", sub.id>>)

SubjectEntityWarnings(cal, sub) ==
    Msg((~IsNone(sub.max_per_day)) /\ Val(sub.max_per_day) > cal.periods_per_day,
        <<"max_per_day_gt_periods", sub.id>>)

TeacherEntityErrors(p, t) ==
    Msg(strip(t.id) = "", <<"teacher_id_empty">>)
    \o (LET ct == SetToSeq(t.can_teach)
        IN Concat([i \in 1..Len(ct) |->
                     Msg(ct[i] \notin DOMAIN index_subjects(p),
                         <<"can_teach_unknown_subject", t.id, ct[i]>>)]))
    \o (LET us == SetToSeq(t.unavailable)
        IN Concat([i \in 1..Len(us) |->
                     SlotRangeErrors(p.calendar, us[i], t.id)]))
    \o _validate_min_max_pair(t.id, "min_periods_per_day", t.min_periods_per_day,
                              "max_periods_per_day", t.max_periods_per_day)
    \o _validate_min_max_pair(t.id, "min_periods_per_week", t.min_periods_per_week,
                              "max_periods_per_week", t.max_periods_per_week)

TeacherEntityWarnings(cal, t) ==
    Msg((~IsNone(t.max_periods_per_day))
          /\ Val(t.max_periods_per_day) > cal.periods_per_day,
        <<"max_periods_per_day_gt_periods", t.id>>)

RoomEntityErrors(p, r) ==
    Msg(strip(r.id) = "", <<"room_id_empty">>)
    \o Msg(r.capacity <= 0, <<"room_capacity_not_positive", r.id>>)
    \o (LET us == SetToSeq(r.unavailable)
        IN Concat([i \in 1..Len(us) |->
                     SlotRangeErrors(p.calendar, us[i], r.id)]))

_validate_entities(p) ==
    Rep(Concat([i \in 1..Len(p.groups) |-> GroupEntityErrors(p.groups[i])])
        \o Concat([i \in 1..Len(p.subjects) |-> SubjectEntityErrors(p.subjects[i])])
        \o Concat([i \in 1..Len(p.teachers) |-> TeacherEntityErrors(p, p.teachers[i])])
        \o Concat([i \in 1..Len(p.rooms) |-> RoomEntityErrors(p, p.rooms[i])]),
        Concat([i \in 1..Len(p.subjects) |->
                  SubjectEntityWarnings(p.calendar, p.subjects[i])])
        \o Concat([i \in 1..Len(p.teachers) |->
                     TeacherEntityWarnings(p.calendar, p.teachers[i])]))

\* The pool the validator checks for a CHOOSE requirement.
ValidatorPool(p, req) ==
    IF TruthySeq(req.teacher_pool)
    THEN Val(req.teacher_pool)
    ELSE Ids(SelectSeq(p.teachers, LAMBDA t : req.subject_id \in t.can_teach))

\* Variant of _possible_slots_for_requirement that keeps the forbidden
\* periods.
_possible_slots_for_requirement_KeepForbidden(p, req) ==
    LET slots1 == teaching_slots(p.calendar)
        teachers == index_teachers(p)
    IN IF req.teacher_policy = "FIXED" /\ TruthyStr(req.teacher_id)
       THEN IF Val(req.teacher_id) \in DOMAIN teachers
            THEN SelectSeq(slots1,
                   LAMBDA s : is_available(teachers[Val(req.teacher_id)], s))
            ELSE slots1
       ELSE IF req.teacher_policy = "CHOOSE"
       THEN LET pool == ValidatorPool(p, req)
            IN SelectSeq(slots1,
                 LAMBDA s : \E i \in 1..Len(pool) :
                              /\ pool[i] \in DOMAIN teachers
                              /\ is_available(teachers[pool[i]], s))
       ELSE slots1

_possible_slots_for_requirement(p, req) ==
    LET slots0 == teaching_slots(p.calendar)
        slots1 == IF p.config.forbidden_periods_hard /\ TruthySet(req.forbidden_periods)
                  THEN SelectSeq(slots0,
                         LAMBDA s : s.period \notin Val(req.forbidden_periods))
                  ELSE slots0
        teachers == index_teachers(p)
    IN IF req.teacher_policy = "FIXED" /\ TruthyStr(req.teacher_id)
       THEN IF Val(req.teacher_id) \in DOMAIN teachers
            THEN SelectSeq(slots1,
                   LAMBDA s : is_available(teachers[Val(req.teacher_id)], s))
            ELSE slots1
       ELSE IF req.teacher_policy = "CHOOSE"
       THEN LET pool == ValidatorPool(p, req)
            IN SelectSeq(slots1,
                 LAMBDA s : \E i \in 1..Len(pool) :
                              /\ pool[i] \in DOMAIN teachers
                              /\ is_available(teachers[pool[i]], s))
       ELSE slots1

_validate_period_set(ctx, periods, max_period, allow_empty) ==
    IF IsNone(periods)
    THEN Rep(<<>>, <<>>)
    ELSE Rep(Msg({q \in Val(periods) : q < 1 \/ q > max_period} # {},
                 <<"periods_out_of_range", ctx>>),
             Msg(Val(periods) = {} /\ ~allow_empty, <<"period_set_empty", ctx>>))

\* The teacher-policy branch of the per-requirement checks.
ReqTeacherErrors(p, req, key) ==
    LET teachers == index_teachers(p)
    IN IF req.teacher_policy = "FIXED"
       THEN IF ~TruthyStr(req.teacher_id)
            THEN <<(<<"fixed_without_teacher", key>>)>>
            ELSE IF Val(req.teacher_id) \notin DOMAIN teachers
            THEN <<(<<"fixed_teacher_unknown", key>>)>>
            ELSE Msg(req.subject_id \notin teachers[Val(req.teacher_id)].can_teach,
                     <<"fixed_teacher_cannot_teach", key>>)
       ELSE IF req.teacher_policy = "CHOOSE"
       THEN LET pool == ValidatorPool(p, req)
            IN IF pool = <<>>
               THEN <<(<<"choose_pool_empty", key>>)>>
               ELSE Concat([i \in 1..Len(pool) |->
                      IF pool[i] \notin DOMAIN teachers
                      THEN <<(<<"pool_teacher_unknown", key, pool[i]>>)>>
                      ELSE Msg(req.subject_id \notin teachers[pool[i]].can_teach,
                               <<"pool_teacher_cannot_teach", key, pool[i]>>)])
       ELSE <<(<<"policy_unknown", key>>)>>

\* The body of the second loop of _validate_requirements for one requirement.
RequirementReport(p, req) ==
    LET cal == p.calendar
        groups == index_groups(p)
        subjects == index_subjects(p)
        key == <<req.group_id, req.subject_id>>
    IN IF req.group_id \notin DOMAIN groups
       THEN Rep(<<(<<"req_group_unknown", req.group_id>>)>>, <<>>)
       ELSE IF req.subject_id \notin DOMAIN subjects
       THEN Rep(<<(<<"req_subject_unknown", req.subject_id>>)>>, <<>>)
       ELSE LET pref == _validate_period_set(<<key, "preferred_periods">>,
                          req.preferred_periods, cal.periods_per_day, FALSE)
                forb == _validate_period_set(<<key, "forbidden_periods">>,
                          req.forbidden_periods, cal.periods_per_day, TRUE)
                sub == subjects[req.subject_id]
                g == groups[req.group_id]
                rooms_ok == SelectSeq(p.rooms,
                              LAMBDA r : r.type = sub.room_type_required
                                         /\ r.capacity >= g.size)
                possible_slots == _possible_slots_for_requirement(p, req)
            IN Rep(
                Msg(req.periods_per_week <= 0, <<"periods_per_week_not_positive", key>>)
                \o Msg((~IsNone(req.max_consecutive)) /\ Val(req.max_consecutive) <= 0,
                       <<"max_consecutive_not_positive", key>>)
                \o pref.errors
                \o forb.errors
                \o ReqTeacherErrors(p, req, key)
                \o Msg(rooms_ok = <<>>, <<"no_compatible_room", key>>)
                \o Msg(req.periods_per_week > Len(possible_slots),
                       <<"not_enough_slots", key>>),
                Msg((~IsNone(req.max_consecutive))
                      /\ Val(req.max_consecutive) > cal.periods_per_day,
                    <<"max_consecutive_gt_periods", key>>)
                \o pref.warnings
                \o forb.warnings)

ReqKeys(p) == [i \in 1..Len(p.requirements) |->
                 <<p.requirements[i].group_id, p.requirements[i].subject_id>>]

_validate_requirements(p) ==
    LET keys == ReqKeys(p)
        reps == [i \in 1..Len(p.requirements) |->
                   RequirementReport(p, p.requirements[i])]
    IN Rep(Concat([i \in 1..Len(keys) |->
                     Msg(\E h \in 1..(i - 1) : keys[h] = keys[i],
                         <<"dup_requirement", keys[i]>>)])
           \o Concat([i \in 1..Len(reps) |-> reps[i].errors]),
           Concat([i \in 1..Len(reps) |-> reps[i].warnings]))

IsFixedWithTeacher(req) == req.teacher_policy = "FIXED" /\ TruthyStr(req.teacher_id)

\* Variant of load_by_group that overwrites instead of accumulating: the
\* group's last requirement alone.
load_by_group_LastOnly(p, g) ==
    LET mine == SelectSeq(p.requirements, LAMBDA r : r.group_id = g)
    IN IF mine = <<>> THEN 0 ELSE mine[Len(mine)].periods_per_week

\* load_by_group[g]: the summed periods_per_week of the group's requirements.
load_by_group(p, g) ==
    SumSeq([i \in 1..Len(p.requirements) |->
              IF p.requirements[i].group_id = g
              THEN p.requirements[i].periods_per_week ELSE 0])

\* fixed_load[t]: the summed periods_per_week of the requirements FIXED to t.
fixed_load(p, t) ==
    SumSeq([i \in 1..Len(p.requirements) |->
              IF IsFixedWithTeacher(p.requirements[i])
                 /\ Val(p.requirements[i].teacher_id) = t
              THEN p.requirements[i].periods_per_week ELSE 0])

_validate_capacity_sanity(p) ==
    LET ts == teaching_slots(p.calendar)
        slots_per_week == Len(ts)
        gids == DistinctInOrder([i \in 1..Len(p.requirements) |->
                                   p.requirements[i].group_id])
        gload(g) == load_by_group(p, g)
        teachers == index_teachers(p)
        fixed == SelectSeq(p.requirements, IsFixedWithTeacher)
        tids == DistinctInOrder([i \in 1..Len(fixed) |-> Val(fixed[i].teacher_id)])
        tload(t) == fixed_load(p, t)
        avail(t) == Len(SelectSeq(ts, LAMBDA s : is_available(teachers[t], s)))
    IN Rep(
        Concat([i \in 1..Len(gids) |->
                  Msg(gload(gids[i]) > slots_per_week, <<"group_overload", gids[i]>>)])
        \o Concat([i \in 1..Len(tids) |->
                  IF tids[i] \notin DOMAIN teachers THEN <<>>
                  ELSE Msg(tload(tids[i]) > avail(tids[i]),
                           <<"teacher_load_gt_available", tids[i]>>)
                       \o Msg((~IsNone(teachers[tids[i]].max_periods_per_week))
                                /\ tload(tids[i]) > Val(teachers[tids[i]].max_periods_per_week),
                              <<"teacher_load_gt_max_week", tids[i]>>)]),
        Concat([i \in 1..Len(gids) |->
                  Msg(gload(gids[i]) = slots_per_week, <<"group_full", gids[i]>>)])
        \o Concat([i \in 1..Len(tids) |->
                  IF tids[i] \notin DOMAIN teachers THEN <<>>
                  ELSE Msg((~IsNone(teachers[tids[i]].min_periods_per_week))
                             /\ tload(tids[i]) < Val(teachers[tids[i]].min_periods_per_week),
                           <<"teacher_load_lt_min_week", tids[i]>>)]))

\* validate_problem with raise_on_error=False: the five sections in order.
ValidationReport(p) ==
    LET parts == << _validate_calendar(p.calendar), _validate_uniqueness(p),
                    _validate_entities(p), _validate_requirements(p),
                    _validate_capacity_sanity(p) >>
        errors == Concat([i \in 1..Len(parts) |-> parts[i].errors])
    IN [ok |-> errors = <<>>,
        errors |-> errors,
        warnings |-> Concat([i \in 1..Len(parts) |-> parts[i].warnings])]

\* Variant of validate_problem that also raises on warnings.
validate_problem_RaiseOnWarnings(p, raise_on_error) ==
    LET rep == ValidationReport(p)
    IN IF raise_on_error /\ (rep.errors # <<>> \/ rep.warnings # <<>>)
       THEN [raised |-> TRUE, errors |-> rep.errors, report |-> None]
       ELSE [raised |-> FALSE, errors |-> <<>>, report |-> rep]

\* validate_problem(problem, raise_on_error): raises ValidationError(errors)
\* when raise_on_error and errors, else returns the report.
validate_problem(p, raise_on_error) ==
    LET rep == ValidationReport(p)
    IN IF raise_on_error /\ rep.errors # <<>>
       THEN [raised |-> TRUE, errors |-> rep.errors, report |-> None]
       ELSE [raised |-> FALSE, errors |-> <<>>, report |-> rep]

-----------------------------------------------------------------------------
(* solve.py: _compile_problem                                              *)

Key(req) == <<req.group_id, req.subject_id>>

\* Variant of rooms_for without the capacity test.
rooms_for_AnyCapacity(p, group_id, subject_id) ==
    LET sub == index_subjects(p)[subject_id]
    IN Ids(SelectSeq(p.rooms, LAMBDA r : r.type = sub.room_type_required))

\* rooms_for(group_id, subject_id)
rooms_for(p, group_id, subject_id) ==
    LET g == index_groups(p)[group_id]
        sub == index_subjects(p)[subject_id]
    IN Ids(SelectSeq(p.rooms,
             LAMBDA r : r.type = sub.room_type_required /\ r.capacity >= g.size))

\* Variant of pool_for that ignores an explicit teacher_pool.
pool_for_Derived(p, req) ==
    IF req.teacher_policy = "FIXED"
    THEN IF TruthyStr(req.teacher_id) THEN <<Val(req.teacher_id)>> ELSE <<>>
    ELSE Ids(SelectSeq(p.teachers, LAMBDA t : req.subject_id \in t.can_teach))

\* pool_for(req)
pool_for(p, req) ==
    IF req.teacher_policy = "FIXED"
    THEN IF TruthyStr(req.teacher_id) THEN <<Val(req.teacher_id)>> ELSE <<>>
    ELSE IF TruthySeq(req.teacher_pool)
    THEN Val(req.teacher_pool)
    ELSE Ids(SelectSeq(p.teachers, LAMBDA t : req.subject_id \in t.can_teach))

\* Variant of possible_slots_for that never removes the forbidden periods.
possible_slots_for_Unfiltered(p, req, pool) ==
    LET possible == teaching_slots(p.calendar)
        teachers == index_teachers(p)
    IN IF req.teacher_policy = "FIXED" /\ TruthyStr(req.teacher_id)
       THEN SelectSeq(possible,
              LAMBDA s : is_available(teachers[Val(req.teacher_id)], s))
       ELSE IF req.teacher_policy = "CHOOSE"
       THEN LET pool_teachers == SelectSeq(pool, LAMBDA tid : tid \in DOMAIN teachers)
            IN IF pool_teachers # <<>>
               THEN SelectSeq(possible,
                      LAMBDA s : \E i \in 1..Len(pool_teachers) :
                                   is_available(teachers[pool_teachers[i]], s))
               ELSE possible
       ELSE possible

\* possible_slots_for(req, pool)
possible_slots_for(p, req, pool) ==
    LET slots == teaching_slots(p.calendar)
        teachers == index_teachers(p)
        possible == IF p.config.forbidden_periods_hard /\ TruthySet(req.forbidden_periods)
                    THEN SelectSeq(slots,
                           LAMBDA s : s.period \notin Val(req.forbidden_periods))
                    ELSE slots
    IN IF req.teacher_policy = "FIXED" /\ TruthyStr(req.teacher_id)
       THEN SelectSeq(possible,
              LAMBDA s : is_available(teachers[Val(req.teacher_id)], s))
       ELSE IF req.teacher_policy = "CHOOSE"
       THEN LET pool_teachers == SelectSeq(pool, LAMBDA tid : tid \in DOMAIN teachers)
            IN IF pool_teachers # <<>>
               THEN SelectSeq(possible,
                      LAMBDA s : \E i \in 1..Len(pool_teachers) :
                                   is_available(teachers[pool_teachers[i]], s))
               ELSE possible
       ELSE possible

\* f"{i:02d}"
Pad2(i) == IF i < 10 THEN "0" \o ToString(i) ELSE ToString(i)

\* f"{req.group_id}-{req.subject_id}-{i:02d}"
EventId(req, i) == req.group_id \o "-" \o req.subject_id \o "-" \o Pad2(i)

\* Variant of EventsOfReq that enumerates range(1, periods_per_week): one
\* event short per requirement.
EventsOfReq_OneShort(p, req) ==
    [i \in 1..(req.periods_per_week - 1) |->
       [id |-> EventId(req, i),
        group_id |-> req.group_id,
        subject_id |-> req.subject_id,
        room_type_required |-> index_subjects(p)[req.subject_id].room_type_required,
        same_teacher_key |-> Key(req)]]

\* The unit events of one requirement: range(1, periods_per_week + 1).
EventsOfReq(p, req) ==
    [i \in 1..req.periods_per_week |->
       [id |-> EventId(req, i),
        group_id |-> req.group_id,
        subject_id |-> req.subject_id,
        room_type_required |-> index_subjects(p)[req.subject_id].room_type_required,
        same_teacher_key |-> Key(req)]]

\* slot_index = {s: i for i, s in enumerate(slots)}: the last position wins.
SlotIndex(slots) ==
    [s \in Range(slots) |->
       CHOOSE i \in 1..Len(slots) :
          slots[i] = s /\ \A j \in (i + 1)..Len(slots) : slots[j] # s]

\* The last position at which a dict key was written.
LastPos(seq, v) == CHOOSE i \in 1..Len(seq) :
                      seq[i] = v /\ \A j \in (i + 1)..Len(seq) : seq[j] # v

\* _compile_problem: the compiled bundle, or the ValueError it raises in
\* field error (the first event without rooms or without slots).
\* evreq[n] is the requirement that produced the n-th event.
_compile_problem(p) ==
    LET slots == teaching_slots(p.calendar)
        slot_index == SlotIndex(slots)
        reqs == p.requirements
        events == Concat([r \in 1..Len(reqs) |-> EventsOfReq(p, reqs[r])])
        evreq == Concat([r \in 1..Len(reqs) |->
                           [i \in 1..reqs[r].periods_per_week |-> reqs[r]]])
        eids == [n \in 1..Len(events) |-> events[n].id]
        keys == ReqKeys(p)
        rids(n) == rooms_for(p, evreq[n].group_id, evreq[n].subject_id)
        poss(n) == possible_slots_for(p, evreq[n], pool_for(p, evreq[n]))
        bad == {n \in 1..Len(events) : rids(n) = <<>> \/ poss(n) = <<>>}
    IN [error |-> IF bad = {} THEN "" ELSE "ValueError",
        events |-> events,
        event_req_key |-> [id \in Range(eids) |-> Key(evreq[LastPos(eids, id)])],
        req_by_key |-> [k \in Range(keys) |-> reqs[LastPos(keys, k)]],
        slots |-> slots,
        slot_index |-> slot_index,
        keys |-> DistinctInOrder(keys),
        key_pools |-> [k \in Range(keys) |-> pool_for(p, reqs[LastPos(keys, k)])],
        allowed_slots |-> [id \in Range(eids) |->
                             LET ps == poss(LastPos(eids, id))
                             IN [j \in 1..Len(ps) |-> slot_index[ps[j]]]],
        allowed_rooms |-> [id \in Range(eids) |-> rids(LastPos(eids, id))]]

-----------------------------------------------------------------------------
(* solve.py: the CP-SAT model built by solve().  A valuation v gives the   *)
(* decision variables: v.x[eid][si], v.y[eid][rid], v.a[k][tid], each 0/1. *)
(* Variables are dict entries keyed by event id / key, as in the code.     *)

Bit == {0, 1}

EventIds(c) == DOMAIN c.allowed_slots

SlotIdx(c) == 1..Len(c.slots)

\* (e.id, si) in x
InX(c, eid, si) == si \in Range(c.allowed_slots[eid])

\* "Cada evento exactamente 1 vez": sum(x[(e.id, si)] for si in allowed) == 1
PlacementRow(c, eid, row) ==
    SumSeq([j \in 1..Len(c.allowed_slots[eid]) |-> row[c.allowed_slots[eid][j]]]) = 1

\* Variant of GroupConflict that groups the events by (group, subject)
\* instead of by group.
GroupConflict_PerKey(c, x) ==
    \A k \in {c.events[n].same_teacher_key : n \in 1..Len(c.events)} :
      \A si \in SlotIdx(c) :
        SumSeq([n \in 1..Len(c.events) |->
                  IF c.events[n].same_teacher_key = k /\ InX(c, c.events[n].id, si)
                  THEN x[c.events[n].id][si] ELSE 0]) <= 1

\* Group conflict: at most one event per group and slot.
GroupConflict(c, x) ==
    \A g \in {c.events[n].group_id : n \in 1..Len(c.events)} :
      \A si \in SlotIdx(c) :
        SumSeq([n \in 1..Len(c.events) |->
                  IF c.events[n].group_id = g /\ InX(c, c.events[n].id, si)
                  THEN x[c.events[n].id][si] ELSE 0]) <= 1

\* sum(a[(k, tid)] for tid in pool) == 1, and the FIXED forcing.
TeacherPickRow(c, k, row) ==
    /\ SumSeq([j \in 1..Len(c.key_pools[k]) |-> row[c.key_pools[k][j]]]) = 1
    /\ c.req_by_key[k].teacher_policy = "FIXED" =>
         \A tid \in Range(c.key_pools[k]) :
            row[tid] = (IF tid = Val(c.req_by_key[k].teacher_id) THEN 1 ELSE 0)

\* sum(terms) of occ[k, si]: the x of the events of key k that have slot si.
OccSum(c, x, k, si) ==
    SumSeq([n \in 1..Len(c.events) |->
              IF c.events[n].same_teacher_key = k /\ InX(c, c.events[n].id, si)
              THEN x[c.events[n].id][si] ELSE 0])

KeysWithEvents(c) == {c.events[n].same_teacher_key : n \in 1..Len(c.events)}

\* occ[k, si] is a Boolean equal to the sum, so the sum is at most 1.
OccDefined(c, x) ==
    \A k \in KeysWithEvents(c) : \A si \in SlotIdx(c) : OccSum(c, x, k, si) <= 1

\* The value of teach[k, tid, si]: the v with v <= a, v <= occ, v >= a+occ-1.
TeachVal(av, occv) ==
    CHOOSE t \in Bit : t <= av /\ t <= occv /\ t >= av + occv - 1

Teach(c, v, k, tid, si) == TeachVal(v.a[k][tid], OccSum(c, v.x, k, si))

\* Variant of TeacherAvailability that forbids unavailable slots for FIXED
\* keys only.
TeacherAvailability_FixedOnly(p, c, v) ==
    LET teachers == index_teachers(p)
    IN \A k \in Range(c.keys) : \A tid \in Range(c.key_pools[k]) :
         \A si \in SlotIdx(c) :
           (c.req_by_key[k].teacher_policy = "FIXED"
              /\ ~is_available(teachers[tid], c.slots[si])) =>
              Teach(c, v, k, tid, si) = 0

\* "disponibilidad": teach == 0 where the teacher is not available.
TeacherAvailability(p, c, v) ==
    LET teachers == index_teachers(p)
    IN \A k \in Range(c.keys) : \A tid \in Range(c.key_pools[k]) :
         \A si \in SlotIdx(c) :
           ~is_available(teachers[tid], c.slots[si]) =>
              Teach(c, v, k, tid, si) = 0

\* sum(terms) of busy[tid, si]: the teach of every key whose pool has tid.
BusySum(c, v, tid, si) ==
    SumSeq([j \in 1..Len(c.keys) |->
              IF tid \in Range(c.key_pools[c.keys[j]])
              THEN Teach(c, v, c.keys[j], tid, si) ELSE 0])

\* Variant of TeacherConflict that bounds each key's teach variable on its
\* own instead of the teacher's sum over all keys.
TeacherConflict_PerKey(p, c, v) ==
    \A k \in Range(c.keys) : \A tid \in Range(c.key_pools[k]) :
      \A si \in SlotIdx(c) : Teach(c, v, k, tid, si) <= 1

\* Teacher conflict: at most one class per teacher and slot.
TeacherConflict(p, c, v) ==
    \A tid \in Range(Ids(p.teachers)) : \A si \in SlotIdx(c) :
       BusySum(c, v, tid, si) <= 1

\* slots_by_day[d]: the slot indices of day d, in index order.
slots_by_day(c, d) == SelectSeq([i \in SlotIdx(c) |-> i], LAMBDA si : c.slots[si].day = d)

DaysWithSlots(c) == {c.slots[si].day : si \in SlotIdx(c)}

\* Variant of TeacherCaps whose two bounds are one too large.
TeacherCaps_OneMore(p, c, v) ==
    LET teachers == index_teachers(p)
    IN \A tid \in DOMAIN teachers :
         LET t == teachers[tid]
         IN /\ (~IsNone(t.max_periods_per_day)) =>
                 \A d \in DaysWithSlots(c) :
                    LET silist == slots_by_day(c, d)
                    IN SumSeq([j \in 1..Len(silist) |->
                                 BusySum(c, v, tid, silist[j])])
                         <= Val(t.max_periods_per_day) + 1
            /\ (~IsNone(t.max_periods_per_week)) =>
                 SumSeq([si \in SlotIdx(c) |-> BusySum(c, v, tid, si)])
                   <= Val(t.max_periods_per_week) + 1

\* max_periods_per_day / max_periods_per_week (hard).
TeacherCaps(p, c, v) ==
    LET teachers == index_teachers(p)
    IN \A tid \in DOMAIN teachers :
         LET t == teachers[tid]
         IN /\ (~IsNone(t.max_periods_per_day)) =>
                 \A d \in DaysWithSlots(c) :
                    LET silist == slots_by_day(c, d)
                    IN SumSeq([j \in 1..Len(silist) |->
                                 BusySum(c, v, tid, silist[j])])
                         <= Val(t.max_periods_per_day)
            /\ (~IsNone(t.max_periods_per_week)) =>
                 SumSeq([si \in SlotIdx(c) |-> BusySum(c, v, tid, si)])
                   <= Val(t.max_periods_per_week)

\* sum(y[(e.id, rid)] for rid in rids) == 1
RoomPickRow(c, eid, row) ==
    SumSeq([j \in 1..Len(c.allowed_rooms[eid]) |-> row[c.allowed_rooms[eid][j]]]) = 1

\* "Blindaje": x + y <= 1 where the room is not available in the slot.
RoomAvailability(p, c, v) ==
    LET rooms == index_rooms(p)
    IN \A n \in 1..Len(c.events) :
         LET eid == c.events[n].id
         IN \A si \in Range(c.allowed_slots[eid]) :
              \A rid \in Range(c.allowed_rooms[eid]) :
                 ~is_available(rooms[rid], c.slots[si]) =>
                    v.x[eid][si] + v.y[eid][rid] <= 1

\* The value of w[e, si, rid]: the v with v <= x, v <= y, v >= x+y-1.
WVal(xv, yv) == CHOOSE t \in Bit : t <= xv /\ t <= yv /\ t >= xv + yv - 1

\* sum(room_slot_sum[(rid, si)]): one w per event, per occurrence of si in
\* its allowed slots and of rid in its allowed rooms, where the room is
\* available.
RoomSlotSum(c, v, room, si) ==
    IF ~is_available(room, c.slots[si]) THEN 0
    ELSE SumSeq([n \in 1..Len(c.events) |->
           LET eid == c.events[n].id
               as == c.allowed_slots[eid]
               ar == c.allowed_rooms[eid]
           IN IF si \in Range(as) /\ room.id \in Range(ar)
              THEN Cardinality({j \in 1..Len(as) : as[j] = si})
                   * Cardinality({j \in 1..Len(ar) : ar[j] = room.id})
                   * WVal(v.x[eid][si], v.y[eid][room.id])
              ELSE 0])

\* Room conflict: at most one event per room and slot.
RoomConflict(p, c, v) ==
    LET rooms == index_rooms(p)
    IN \A rid \in DOMAIN rooms : \A si \in SlotIdx(c) :
          RoomSlotSum(c, v, rooms[rid], si) <= 1

\* Variant of Window of width m: the periods in [start_p, start_p + m).
Window_Narrow(c, d, start_p, m) ==
    SelectSeq(slots_by_day(c, d),
              LAMBDA si : start_p <= c.slots[si].period
                          /\ c.slots[si].period < start_p + m)

\* The windows of max_consecutive for one day: for start_p in
\* range(1, periods_per_day - m + 1), the day's slots with period in
\* [start_p, start_p + m].
Window(c, d, start_p, m) ==
    SelectSeq(slots_by_day(c, d),
              LAMBDA si : start_p <= c.slots[si].period
                          /\ c.slots[si].period <= start_p + m)

MaxConsecutive(p, c, v) ==
    \A k \in DOMAIN c.req_by_key :
      LET mo == c.req_by_key[k].max_consecutive
      IN ((~IsNone(mo)) /\ Val(mo) >= 1) =>
           \A d \in Range(p.calendar.days) :
             \A start_p \in 1..(p.calendar.periods_per_day - Val(mo)) :
               LET window == Window(c, d, start_p, Val(mo))
               IN SumSeq([j \in 1..Len(window) |-> OccSum(c, v.x, k, window[j])])
                    <= Val(mo)

\* Subject.max_per_day (hard)
SubjectMaxPerDay(p, c, v) ==
    LET subj_by_id == index_subjects(p)
    IN \A k \in Range(c.keys) :
         LET maxpd == subj_by_id[k[2]].max_per_day
         IN (~IsNone(maxpd)) =>
              \A d \in Range(p.calendar.days) :
                 LET silist == slots_by_day(c, d)
                 IN SumSeq([j \in 1..Len(silist) |->
                              OccSum(c, v.x, k, silist[j])]) <= Val(maxpd)

-----------------------------------------------------------------------------
(* The solver: CpSolver.Solve returns OPTIMAL or FEASIBLE with a valuation *)
(* satisfying every constraint added to the model, or another status.      *)

\* All functions f on DOMAIN rs with f[d] \in rs[d].
RECURSIVE Prod(_)
Prod(rs) ==
    IF DOMAIN rs = {} THEN {[d \in {} |-> 0]}
    ELSE LET d == CHOOSE e \in DOMAIN rs : TRUE
             rest == [e \in (DOMAIN rs) \ {d} |-> rs[e]]
         IN {f @@ (d :> r) : f \in Prod(rest), r \in rs[d]}

\* The valuations of x, y and a that satisfy the constraints on one
\* event's (key's) variables alone.
XVals(c) ==
    Prod([eid \in EventIds(c) |->
            {row \in [Range(c.allowed_slots[eid]) -> Bit] : PlacementRow(c, eid, row)}])

YVals(c) ==
    Prod([eid \in EventIds(c) |->
            {row \in [Range(c.allowed_rooms[eid]) -> Bit] : RoomPickRow(c, eid, row)}])

AVals(c) ==
    Prod([k \in Range(c.keys) |->
            {row \in [Range(c.key_pools[k]) -> Bit] : TeacherPickRow(c, k, row)}])

\* The valuations the solver may return: those that satisfy every
\* constraint added to the model.
Feasible(p, c) ==
    LET XV == XVals(c)
        YV == YVals(c)
        AV == AVals(c)
        XS == {x \in XV : /\ GroupConflict(c, x)
                          /\ OccDefined(c, x)
                          /\ MaxConsecutive(p, c, [x |-> x])
                          /\ SubjectMaxPerDay(p, c, [x |-> x])}
        YS(x) == {y \in YV : /\ RoomAvailability(p, c, [x |-> x, y |-> y])
                             /\ RoomConflict(p, c, [x |-> x, y |-> y])}
        AS(x) == {a \in AV : /\ TeacherAvailability(p, c, [x |-> x, a |-> a])
                             /\ TeacherConflict(p, c, [x |-> x, a |-> a])
                             /\ TeacherCaps(p, c, [x |-> x, a |-> a])}
    IN UNION {{[x |-> x, y |-> y, a |-> a] : y \in YS(x), a \in AS(x)} : x \in XS}

\* next((z for z in seq if row[z] == 1), None), then the fallback seq[0].
FirstSet(seq, row) ==
    IF \E j \in 1..Len(seq) : row[seq[j]] = 1
    THEN seq[CHOOSE j \in 1..Len(seq) :
               row[seq[j]] = 1 /\ \A h \in 1..(j - 1) : row[seq[h]] # 1]
    ELSE seq[1]

\* "Construir solucion"
Reconstruct(c, v) ==
    LET event_room == [eid \in EventIds(c) |-> FirstSet(c.allowed_rooms[eid], v.y[eid])]
    IN [scheduled |->
          [n \in 1..Len(c.events) |->
             [event_id |-> c.events[n].id,
              slot |-> c.slots[FirstSet(c.allowed_slots[c.events[n].id],
                                        v.x[c.events[n].id])],
              room_id |-> event_room[c.events[n].id]]],
        teacher_assignment |->
          [k \in Range(c.keys) |-> FirstSet(c.key_pools[k], v.a[k])]]

-----------------------------------------------------------------------------
(* solve.py: the objective.  The gap and excess variables are bounded from *)
(* below only, so the solver may report any value from the bound up; the   *)
(* model lets the sum of each of the two exceed its least value by at most *)
(* MaxSlack.                                                               *)

\* ObjectiveWeights(): the default weights.
ObjectiveWeights ==
    [teacher_gaps |-> 1000, teacher_late |-> 100, subject_same_day_excess |-> 10,
     preferred_period_penalty |-> 1, forbidden_period_penalty |-> 50]

MaxSlack == 1

Max(a, b) == IF a >= b THEN a ELSE b

Min(a, b) == IF a <= b THEN a ELSE b

\* next((si for si in silist if c.slots[si].period == per), None)
SlotAt(c, d, per) ==
    LET hits == SelectSeq(slots_by_day(c, d), LAMBDA si : c.slots[si].period = per)
    IN IF hits = <<>> THEN None ELSE Some(hits[1])

\* teachers.keys()
TeacherIds(p) == DistinctInOrder(Ids(p.teachers))

\* "1) gaps profesores": a Boolean per teacher, day and interior period p
\* whose slots at p - 1, p and p + 1 are all teaching slots.
gap_vars(p, c) ==
    LET cal == p.calendar
        tids == TeacherIds(p)
    IN Concat([i \in 1..Len(tids) |->
         Concat([j \in 1..Len(cal.days) |->
           Concat([q \in 1..Max(0, cal.periods_per_day - 2) |->
              LET si_prev == SlotAt(c, cal.days[j], q)
                  si_cur == SlotAt(c, cal.days[j], q + 1)
                  si_next == SlotAt(c, cal.days[j], q + 2)
              IN IF IsNone(si_prev) \/ IsNone(si_cur) \/ IsNone(si_next)
                 THEN <<>>
                 ELSE <<[tid |-> tids[i], si_prev |-> Val(si_prev),
                         si_cur |-> Val(si_cur), si_next |-> Val(si_next)]>>])])])

\* Variant of GapLower without the constraint: gvar is bounded by 0 only.
GapLower_Unconstrained(c, v, g) == 0

\* gvar >= busy[prev] + busy[next] - busy[cur] - 1: the least value of gvar.
GapLower(c, v, g) ==
    Max(0, BusySum(c, v, g.tid, g.si_prev) + BusySum(c, v, g.tid, g.si_next)
             - BusySum(c, v, g.tid, g.si_cur) - 1)

\* "2) ultima hora profe": busy[tid, si_last] per teacher and day.
late_vars(p, c) ==
    LET cal == p.calendar
        tids == TeacherIds(p)
    IN Concat([i \in 1..Len(tids) |->
         Concat([j \in 1..Len(cal.days) |->
            LET si_last == SlotAt(c, cal.days[j], cal.periods_per_day)
            IN IF IsNone(si_last) THEN <<>>
               ELSE <<[tid |-> tids[i], si |-> Val(si_last)]>>])])

\* "3) repetir misma asignatura el mismo dia": ex in 0..periods_per_day per
\* key and day that has slots, with ex >= cnt - 1.
excess_vars(p, c) ==
    LET cal == p.calendar
    IN Concat([i \in 1..Len(c.keys) |->
         Concat([j \in 1..Len(cal.days) |->
            IF slots_by_day(c, cal.days[j]) = <<>> THEN <<>>
            ELSE <<[k |-> c.keys[i], d |-> cal.days[j]]>>])])

ExcessLower(c, v, e) ==
    LET silist == slots_by_day(c, e.d)
    IN Max(0, SumSeq([j \in 1..Len(silist) |-> OccSum(c, v.x, e.k, silist[j])]) - 1)

\* occ[k, si] for the keys in dict order and the slots in order whose
\* <<key, period>> is wanted.
OccTerms(c, wanted) ==
    Concat([i \in 1..Len(c.keys) |->
       Concat([si \in SlotIdx(c) |->
          IF <<c.keys[i], c.slots[si].period>> \in wanted
          THEN <<[k |-> c.keys[i], si |-> si]>> ELSE <<>>])])

\* "4) preferred_periods penalty": occ outside the preferred periods.
pref_terms(p, c) ==
    OccTerms(c, {<<k, per>> \in Range(c.keys) \X (1..p.calendar.periods_per_day) :
                   /\ TruthySet(c.req_by_key[k].preferred_periods)
                   /\ per \notin Val(c.req_by_key[k].preferred_periods)})

\* "forbidden_periods soft si config says not hard": occ in the forbidden
\* periods.
forbidden_soft_terms(p, c) ==
    IF p.config.forbidden_periods_hard THEN <<>>
    ELSE OccTerms(c, {<<k, per>> \in Range(c.keys) \X (1..p.calendar.periods_per_day) :
                        /\ TruthySet(c.req_by_key[k].forbidden_periods)
                        /\ per \in Val(c.req_by_key[k].forbidden_periods)})

\* The five variable lists, by the name of their term.
ObjectiveVars(p, c) ==
    [teacher_gaps |-> gap_vars(p, c),
     teacher_late |-> late_vars(p, c),
     subject_same_day_excess |-> excess_vars(p, c),
     preferred_period_penalty |-> pref_terms(p, c),
     forbidden_period_penalty |-> forbidden_soft_terms(p, c)]

Terms ==
    <<"teacher_gaps", "teacher_late", "subject_same_day_excess",
      "preferred_period_penalty", "forbidden_period_penalty">>

\* The least sum(solver.Value(v) for v in ...) of each list under the
\* valuation v: late, preferred and forbidden terms are sums of busy and
\* occ, gap and excess variables sit at their lower bound.
LeastSums(c, ov, v) ==
    [teacher_gaps |->
        SumSeq([i \in 1..Len(ov.teacher_gaps) |-> GapLower(c, v, ov.teacher_gaps[i])]),
     teacher_late |->
        SumSeq([i \in 1..Len(ov.teacher_late) |->
                  BusySum(c, v, ov.teacher_late[i].tid, ov.teacher_late[i].si)]),
     subject_same_day_excess |->
        SumSeq([i \in 1..Len(ov.subject_same_day_excess) |->
                  ExcessLower(c, v, ov.subject_same_day_excess[i])]),
     preferred_period_penalty |->
        SumSeq([i \in 1..Len(ov.preferred_period_penalty) |->
                  OccSum(c, v.x, ov.preferred_period_penalty[i].k,
                         ov.preferred_period_penalty[i].si)]),
     forbidden_period_penalty |->
        SumSeq([i \in 1..Len(ov.forbidden_period_penalty) |->
                  OccSum(c, v.x, ov.forbidden_period_penalty[i].k,
                         ov.forbidden_period_penalty[i].si)])]

\* The sums the solver may report with the valuation v: each gap variable
\* is a Boolean and each excess variable lies in 0..periods_per_day.  The
\* two sums together exceed their least values by at most MaxSlack.
RealizedSums(p, c, ov, v) ==
    LET least == LeastSums(c, ov, v)
        gap_top == Min(least.teacher_gaps + MaxSlack, Len(ov.teacher_gaps))
        ex_top == Min(least.subject_same_day_excess + MaxSlack,
                      Len(ov.subject_same_day_excess) * p.calendar.periods_per_day)
    IN {[least EXCEPT !.teacher_gaps = ge[1], !.subject_same_day_excess = ge[2]] :
           ge \in {q \in (least.teacher_gaps..gap_top)
                           \X (least.subject_same_day_excess..ex_top) :
                     (q[1] - least.teacher_gaps)
                       + (q[2] - least.subject_same_day_excess) <= MaxSlack}}

\* "if gap_vars and weights.teacher_gaps: objective_terms.append(...)" and
\* its four siblings: the terms in the objective.
objective_terms(p, ov) ==
    SelectSeq(Terms, LAMBDA t : ov[t] # <<>> /\ p.config.weights[t] # 0)

\* Variant of ObjectiveValue that counts every term that has an entry in
\* the breakdown, emitted or not, with the default weight when its weight
\* is zero.
ObjectiveValue_AllTerms(p, ov, sums) ==
    SumSeq([i \in 1..Len(Terms) |->
              IF ov[Terms[i]] = <<>> THEN 0
              ELSE IF p.config.weights[Terms[i]] = 0
              THEN ObjectiveWeights[Terms[i]] * sums[Terms[i]]
              ELSE p.config.weights[Terms[i]] * sums[Terms[i]]])

\* solver.ObjectiveValue(): the value of sum(objective_terms).
ObjectiveValue(p, ov, sums) ==
    LET ts == objective_terms(p, ov)
    IN SumSeq([i \in 1..Len(ts) |-> p.config.weights[ts[i]] * sums[ts[i]]])

\* breakdown: an entry for every non-empty variable list.
breakdown(ov, sums) ==
    [t \in {u \in Range(Terms) : ov[u] # <<>>} |-> sums[t]]

\* status not in (OPTIMAL, FEASIBLE) raises.
StatusAccepted_Any(status) == TRUE

StatusAccepted(status) == status \in {"OPTIMAL", "FEASIBLE"}

\* The reading of every variable when the solver holds no assignment.
NoAssignment(c) ==
    [x |-> [eid \in EventIds(c) |-> [si \in Range(c.allowed_slots[eid]) |-> 0]],
     y |-> [eid \in EventIds(c) |-> [rid \in Range(c.allowed_rooms[eid]) |-> 0]],
     a |-> [k \in Range(c.keys) |-> [tid \in Range(c.key_pools[k]) |-> 0]]]

\* solver.Solve(model) when it ends without an assignment: INFEASIBLE
\* when none satisfies the constraints, UNKNOWN when the search stops
\* before it finds or refutes one.
SolverFailures(p, c) ==
    LET none == NoAssignment(c)
        sums == LeastSums(c, ObjectiveVars(p, c), none)
    IN {[status |-> "UNKNOWN", v |-> none, sums |-> sums]}
       \cup (IF Feasible(p, c) = {}
             THEN {[status |-> "INFEASIBLE", v |-> none, sums |-> sums]}
             ELSE {})

\* solver.Solve(model): the status and the assignment the solver ends
\* with.  FEASIBLE with any assignment that satisfies the constraints,
\* OPTIMAL with one of least objective value.
SolverResults(p, c) ==
    UNION {UNION {{[status |-> "FEASIBLE", v |-> r.v, sums |-> r.sums] : r \in found}
                  \cup {[status |-> "OPTIMAL", v |-> r.v, sums |-> r.sums] :
                          r \in {q \in found : q.cost = best}} :
                    best \in {m \in {r.cost : r \in found} :
                               \A o \in found : m <= o.cost}} :
             found \in {UNION {{[v |-> v, sums |-> s,
                                cost |-> ObjectiveValue(p, ov, s)] :
                                  s \in RealizedSums(p, c, ov, v)} :
                                v \in Feasible(p, c)} :
                          ov \in {ObjectiveVars(p, c)}}}
       \cup SolverFailures(p, c)

\* TimetableSolution(scheduled, teacher_assignment, objective_value,
\* objective_breakdown)
BuildSolution(p, c, res) ==
    LET ov == ObjectiveVars(p, c)
        rec == Reconstruct(c, res.v)
    IN [scheduled |-> rec.scheduled,
        teacher_assignment |-> rec.teacher_assignment,
        objective_value |-> IF objective_terms(p, ov) # <<>>
                            THEN Some(ObjectiveValue(p, ov, res.sums)) ELSE None,
        objective_breakdown |-> breakdown(ov, res.sums)]

-----------------------------------------------------------------------------
(* The problems submitted to the service.  Bounds of the model:            *)

MaxPeriods == 3

MaxPPW == 2

MkGroup(id, size) == [id |-> id, size |-> size]

MkSubject(id, type, maxpd) ==
    [id |-> id, room_type_required |-> type, max_per_day |-> maxpd]

MkTeacher(id, can, unav, maxd, maxw) ==
    [id |-> id, can_teach |-> can, unavailable |-> unav,
     max_periods_per_day |-> maxd, max_periods_per_week |-> maxw,
     min_periods_per_day |-> None, min_periods_per_week |-> None]

MkRoom(id, type, cap, unav) ==
    [id |-> id, type |-> type, capacity |-> cap, unavailable |-> unav]

MkReq(g, s, ppw, maxc, pol, tid, pool, forb) ==
    [group_id |-> g, subject_id |-> s, periods_per_week |-> ppw,
     max_consecutive |-> maxc, teacher_policy |-> pol, teacher_id |-> tid,
     teacher_pool |-> pool, preferred_periods |-> None,
     forbidden_periods |-> forb]

MkProblem(days, ppd, blocked, groups, subjects, teachers, rooms, reqs, hard) ==
    [calendar |-> [days |-> days, periods_per_day |-> ppd, blocked_slots |-> blocked],
     groups |-> groups, subjects |-> subjects, teachers |-> teachers,
     rooms |-> rooms, requirements |-> reqs,
     config |-> [forbidden_periods_hard |-> hard, weights |-> ObjectiveWeights]]

\* A requirement's teacher policy: FIXED with a teacher, or CHOOSE with an
\* optional explicit pool.
Policies ==
    {[pol |-> "FIXED", tid |-> Some("T1"), pool |-> None],
     [pol |-> "CHOOSE", tid |-> None, pool |-> None],
     [pol |-> "CHOOSE", tid |-> None, pool |-> Some(<<"T2">>)]}

\* Teachers competing for two groups' lessons: FIXED and CHOOSE keys that
\* share teachers.  T3 teaches nothing.
TeacherProblem(u1, maxd, maxw, ppw, p1, p2) ==
    MkProblem(<<"mon", "tue">>, 2, {},
        <<MkGroup("G1", 20), MkGroup("G2", 30)>>,
        <<MkSubject("MATH", "NORMAL", None)>>,
        <<MkTeacher("T1", {"MATH"}, u1, maxd, maxw),
          MkTeacher("T2", {"MATH"}, {Slot("tue", 2)}, None, None),
          MkTeacher("T3", {}, {}, None, None)>>,
        <<MkRoom("R1", "NORMAL", 30, {}), MkRoom("R2", "NORMAL", 20, {})>>,
        <<MkReq("G1", "MATH", ppw, None, p1.pol, p1.tid, p1.pool, None),
          MkReq("G2", "MATH", 1, None, p2.pol, p2.tid, p2.pool, None)>>,
        TRUE)

\* Every pair of policies with and without an unavailable slot of T1, and
\* per-day / per-week caps of T1 under every policy of the first key.
TeacherProblems ==
    {TeacherProblem(u1, None, None, ppw, p1, p2) :
       u1 \in {{}, {Slot("mon", 1)}}, ppw \in {1, 2},
       p1 \in Policies, p2 \in Policies}
    \cup
    {TeacherProblem({}, maxd, maxw, ppw, p1, p2) :
       maxd \in {None, Some(1)}, maxw \in {None, Some(2)}, ppw \in {1, 2},
       p1 \in Policies, p2 \in {q \in Policies : q.pool = None}}

\* Rooms: type, capacity and unavailability; two requirements of one group
\* or of two groups sharing the rooms.
RoomProblems ==
    {MkProblem(<<"mon", "tue">>, 2, {},
        <<MkGroup("G1", 20), MkGroup("G2", 30)>>,
        <<MkSubject("MATH", "NORMAL", None), MkSubject("SCI", "LAB", None)>>,
        <<MkTeacher("T1", {"MATH", "SCI"}, {}, None, None),
          MkTeacher("T2", {"MATH", "SCI"}, {}, None, None)>>,
        <<MkRoom("R1", "NORMAL", cap1, {}), MkRoom("R2", "NORMAL", 30, u2),
          MkRoom("R3", "LAB", 30, {})>>,
        <<MkReq("G1", "MATH", ppw, None, "FIXED", Some("T1"), None, None),
          MkReq(g2, s2, 1, None, "FIXED", Some("T2"), None, None)>>,
        TRUE) :
       cap1 \in {20, 30},
       u2 \in {{}, {Slot("mon", 1), Slot("mon", 2), Slot("tue", 1)}},
       ppw \in {1, 2}, g2 \in {"G1", "G2"}, s2 \in {"MATH", "SCI"}}

\* One requirement on one day of 1..MaxPeriods periods or on two days of
\* two: max_consecutive windows with a blocked period, and
\* Subject.max_per_day.
WindowProblems ==
    {MkProblem(cal.days, cal.ppd, blocked,
        <<MkGroup("G1", 20)>>,
        <<MkSubject("MATH", "NORMAL", maxpd)>>,
        <<MkTeacher("T1", {"MATH"}, {}, None, None)>>,
        <<MkRoom("R1", "NORMAL", 30, {})>>,
        <<MkReq("G1", "MATH", ppw, maxc, "FIXED", Some("T1"), None, None)>>,
        TRUE) :
       cal \in {[days |-> <<"mon">>, ppd |-> n] : n \in 1..MaxPeriods}
                  \cup {[days |-> <<"mon", "tue">>, ppd |-> 2]},
       blocked \in {{}, {Slot("mon", 2)}}, maxpd \in {None, Some(1), Some(2)},
       ppw \in 1..MaxPPW, maxc \in {None, Some(1), Some(2)}}

\* Forbidden periods, hard or soft.
ForbiddenProblems ==
    {MkProblem(<<"mon", "tue">>, ppd, {},
        <<MkGroup("G1", 20)>>,
        <<MkSubject("MATH", "NORMAL", None)>>,
        <<MkTeacher("T1", {"MATH"}, {Slot("tue", 1)}, None, None),
          MkTeacher("T2", {"MATH"}, {}, None, None)>>,
        <<MkRoom("R1", "NORMAL", 30, {})>>,
        <<MkReq("G1", "MATH", ppw, Some(2), pol.pol, pol.tid, pol.pool, forb)>>,
        hard) :
       ppd \in {1, 2, 3}, ppw \in {1, 2},
       pol \in {[pol |-> "FIXED", tid |-> Some("T1"), pool |-> None],
                [pol |-> "CHOOSE", tid |-> None, pool |-> None]},
       forb \in {None, Some({}), Some({1}), Some({1, 2})}, hard \in BOOLEAN}

\* Ids that contain the separator of the event id, and a calendar that
\* names a day twice.
OddProblems ==
    {MkProblem(<<"mon", "tue">>, 2, {},
        <<MkGroup("A-B", 20), MkGroup("A", 20)>>,
        <<MkSubject("C", "NORMAL", None), MkSubject("B-C", "NORMAL", None)>>,
        <<MkTeacher("T1", {"C", "B-C"}, {}, None, None),
          MkTeacher("T2", {"C", "B-C"}, {}, None, None)>>,
        <<MkRoom("R1", "NORMAL", 30, {}), MkRoom("R2", "NORMAL", 30, {})>>,
        <<MkReq("A-B", "C", 1, None, "FIXED", Some("T1"), None, None),
          MkReq("A", s2, 1, None, "FIXED", Some("T2"), None, None)>>,
        TRUE) :
       s2 \in {"C", "B-C"}}
    \cup
    {MkProblem(<<"mon", "mon">>, 2, {},
        <<MkGroup("G1", 20)>>,
        <<MkSubject("MATH", "NORMAL", None)>>,
        <<MkTeacher("T1", {"MATH"}, {}, None, None)>>,
        <<MkRoom("R1", "NORMAL", 30, {})>>,
        <<MkReq("G1", "MATH", 1, None, "FIXED", Some("T1"), None, None)>>,
        TRUE)}

\* Scenarios S4 (a group asks 7 periods of a week of 5 slots) and S6 (4
\* periods a week, max_consecutive 2, one day of 4 periods); two
\* requirements of one group that fill or exceed a week of 2 slots, with a
\* teacher below min_periods_per_week.
ScenarioProblems ==
    {MkProblem(<<"mon", "tue", "wed", "thu", "fri">>, 1, {},
        <<MkGroup("G1", 20)>>,
        <<MkSubject("MATH", "NORMAL", None)>>,
        <<MkTeacher("T1", {"MATH"}, {}, None, None)>>,
        <<MkRoom("R1", "NORMAL", 30, {})>>,
        <<MkReq("G1", "MATH", 7, None, "FIXED", Some("T1"), None, None)>>,
        TRUE),
     MkProblem(<<"mon">>, 4, {},
        <<MkGroup("G1", 20)>>,
        <<MkSubject("MATH", "NORMAL", None)>>,
        <<MkTeacher("T1", {"MATH"}, {}, None, None)>>,
        <<MkRoom("R1", "NORMAL", 30, {})>>,
        <<MkReq("G1", "MATH", 4, Some(2), "FIXED", Some("T1"), None, None)>>,
        TRUE)}
    \cup
    {MkProblem(<<"mon">>, 2, {},
        <<MkGroup("G1", 20)>>,
        <<MkSubject("MATH", "NORMAL", None), MkSubject("SCI", "NORMAL", None)>>,
        <<[MkTeacher("T1", {"MATH"}, {}, None, None)
             EXCEPT !.min_periods_per_week = Some(3)],
          MkTeacher("T2", {"SCI"}, {}, None, None)>>,
        <<MkRoom("R1", "NORMAL", 30, {})>>,
        <<MkReq("G1", "MATH", 1, None, "FIXED", Some("T1"), None, None),
          MkReq("G1", "SCI", ppw, None, "FIXED", Some("T2"), None, None)>>,
        TRUE) :
       ppw \in {1, 2}}

\* Objective weights, some of them zero, with preferred periods and soft
\* forbidden periods, on one day of three periods.
ObjectiveProblems ==
    {[MkProblem(<<"mon">>, 3, {},
        <<MkGroup("G1", 20)>>,
        <<MkSubject("MATH", "NORMAL", None)>>,
        <<MkTeacher("T1", {"MATH"}, {}, None, None)>>,
        <<MkRoom("R1", "NORMAL", 30, {})>>,
        <<[MkReq("G1", "MATH", 2, None, "FIXED", Some("T1"), None, forb)
             EXCEPT !.preferred_periods = pref]>>,
        FALSE)
       EXCEPT !.config.weights.teacher_gaps = wg,
              !.config.weights.teacher_late = wl,
              !.config.weights.subject_same_day_excess = wx] :
       pref \in {None, Some({1})}, forb \in {None, Some({3})},
       wg \in {0, 1000}, wl \in {0, 100}, wx \in {0, 10}}

\* Problems the validator rejects.
InvalidProblems ==
    {MkProblem(days, ppd, blocked,
        <<MkGroup("G1", 20)>>,
        <<MkSubject("MATH", "NORMAL", None)>>,
        <<MkTeacher("T1", {"MATH"}, {}, None, None)>>,
        <<MkRoom("R1", "NORMAL", 30, {})>>,
        <<MkReq(g, "MATH", ppw, maxc, "FIXED", tid, None, None)>>,
        TRUE) :
       days \in {<<>>, <<"mon">>}, ppd \in {0, 1},
       blocked \in {{}, {Slot("sun", 1)}}, g \in {"G1", "G9"},
       ppw \in {0, 1}, maxc \in {Some(0), Some(2)},
       tid \in {Some("T1"), Some("T9")}}

\* One CHOOSE requirement whose teacher_pool is absent, empty, or names a
\* teacher who can teach the subject, one who cannot, or an unknown one;
\* T1 and T2 can both teach the subject or neither can.
PoolProblems ==
    {MkProblem(<<"mon">>, 2, {},
        <<MkGroup("G1", 20)>>,
        <<MkSubject("MATH", "NORMAL", None), MkSubject("SCI", "NORMAL", None)>>,
        <<MkTeacher("T1", can, {}, None, None),
          MkTeacher("T2", can, {}, None, None),
          MkTeacher("T3", {"SCI"}, {}, None, None)>>,
        <<MkRoom("R1", "NORMAL", 30, {})>>,
        <<MkReq("G1", "MATH", 1, None, "CHOOSE", None, pool, None)>>,
        TRUE) :
       can \in {{"MATH", "SCI"}, {"SCI"}},
       pool \in {None, Some(<<>>), Some(<<"T2">>), Some(<<"T3">>),
                 Some(<<"T9">>)}}

Problems ==
    TeacherProblems \cup RoomProblems \cup WindowProblems
    \cup ForbiddenProblems \cup OddProblems \cup ScenarioProblems
    \cup ObjectiveProblems \cup PoolProblems \cup InvalidProblems

-----------------------------------------------------------------------------
(* The service: SolverService.validate_problem and                         *)
(* SolverService.solve_problem (strict validation, then solve).            *)

NoReport == [ok |-> FALSE, errors |-> <<>>, warnings |-> <<>>]

NoOutcome == [kind |-> "none"]

NoSolution == [scheduled |-> <<>>, teacher_assignment |-> <<>>]

\* InMemoryProjectRepository.__init__, and no call under way.
Threads == {1, 2}

NoResult == [kind |-> "none"]

Idle ==
    [op |-> "none", pc |-> "idle", id |-> 0, name |-> None, problem |-> None,
     solution |-> None, project |-> None, result |-> NoResult]

StoreInit ==
    /\ _projects = <<>>
    /\ _lock = 0
    /\ clock = 0
    /\ calls = [t \in Threads |-> Idle]
    /\ ncalls = 0
    /\ ghost = <<>>

\* No value read from the solver yet.
NoValues == [x |-> <<>>, y |-> <<>>, a |-> <<>>]

Init ==
    /\ problem \in Problems
    /\ pc = "new"
    /\ report = NoReport
    /\ outcome = NoOutcome
    /\ solution = NoSolution
    /\ values = NoValues
    /\ StoreInit

\* SolverService.validate_problem: validate_problem(raise_on_error=False).
ValidateProblem ==
    /\ pc = "new"
    /\ report' = validate_problem(problem, FALSE).report
    /\ pc' = "reported"
    /\ UNCHANGED <<problem, outcome, solution, values, storevars>>

\* Variant of Pipeline that calls solve before validate_problem.
Pipeline_SolveFirst ==
    <<"problem_from_dict", "solve", "validate_problem", "solution_to_dict">>

\* The calls of solve_problem, in the order of its statements.
Pipeline ==
    <<"problem_from_dict", "validate_problem", "solve", "solution_to_dict">>

\* The calls solve_problem has made when the call named last returns or
\* raises.
StagesUpTo(last) ==
    SubSeq(Pipeline, 1, CHOOSE i \in 1..Len(Pipeline) : Pipeline[i] = last)

\* solve_problem when validate_problem(problem) raises ValidationError.
SolveRejected ==
    /\ pc = "new"
    /\ \E res \in {validate_problem(problem, TRUE)} :
          /\ res.raised
          /\ outcome' = [kind |-> "ValidationError", errors |-> res.errors,
                         stages |-> StagesUpTo("validate_problem")]
    /\ pc' = "done"
    /\ UNCHANGED <<problem, report, solution, values, storevars>>

\* solve_problem when solve() returns: status OPTIMAL or FEASIBLE.
SolveReturn ==
    /\ pc = "new"
    /\ ~validate_problem(problem, TRUE).raised
    /\ \E c \in {_compile_problem(problem)} :
          /\ c.error = ""
          /\ \E res \in SolverResults(problem, c) :
                /\ StatusAccepted(res.status)
                /\ solution' = BuildSolution(problem, c, res)
                /\ values' = res.v
                /\ outcome' = [kind |-> "solution", status |-> res.status,
                               stages |-> StagesUpTo("solution_to_dict")]
    /\ pc' = "done"
    /\ UNCHANGED <<problem, report, storevars>>

\* solve_problem when solve() raises: the compiler's ValueError, or the
\* ValueError that carries the name of a status other than OPTIMAL /
\* FEASIBLE.
SolveRaises ==
    /\ pc = "new"
    /\ ~validate_problem(problem, TRUE).raised
    /\ \E c \in {_compile_problem(problem)} :
          IF c.error # ""
          THEN outcome' = [kind |-> "CompileError", stages |-> StagesUpTo("solve")]
          ELSE \E res \in SolverFailures(problem, c) :
                  /\ ~StatusAccepted(res.status)
                  /\ outcome' = [kind |-> "NoSolution", status |-> res.status,
                                 stages |-> StagesUpTo("solve")]
    /\ pc' = "done"
    /\ UNCHANGED <<problem, report, solution, values, storevars>>

Next == ValidateProblem \/ SolveRejected \/ SolveReturn \/ SolveRaises

Spec == Init /\ [][Next]_vars

-----------------------------------------------------------------------------
(* The project store: InMemoryProjectRepository behind ProjectService, and *)
(* the solve_project route.  A call runs in the thread of its request; a   *)
(* step is what the call does between two points where another thread may *)
(* run.  _projects is the dict in insertion order, _lock is 0 when free    *)
(* and the holder's thread otherwise.  Project ids stand for the uuid4     *)
(* strings: the n-th id drawn is n.  datetime.now() never goes back.       *)

MaxCalls == 3

MaxClock == 1

\* ProjectCreateRequest.name / ProjectUpdateRequest.name
Names == {"Demo", " Demo 2 "}

\* The payloads projects are created and updated with: one the validator
\* rejects and one with a single timetable.
EmptyProblem == MkProblem(<<>>, 1, {}, <<>>, <<>>, <<>>, <<>>, <<>>, TRUE)

ProjectProblems ==
    {EmptyProblem,
     MkProblem(<<"mon">>, 1, {},
        <<MkGroup("G1", 20)>>,
        <<MkSubject("MATH", "NORMAL", None)>>,
        <<MkTeacher("T1", {"MATH"}, {}, None, None)>>,
        <<MkRoom("R1", "NORMAL", 30, {})>>,
        <<MkReq("G1", "MATH", 1, None, "FIXED", Some("T1"), None, None)>>,
        TRUE)}

\* The solution test_attach_solution_updates_last_solution attaches.
TestSolution ==
    [scheduled |-> <<>>, teacher_assignment |-> <<>>,
     objective_value |-> None, objective_breakdown |-> <<>>]

\* datetime.now(timezone.utc): the last reading or a later one.
Now == {n \in {clock, clock + 1} : n <= MaxClock}

\* self._projects.get(project_id): None or the record.
Lookup(ps, id) ==
    LET hits == SelectSeq(ps, LAMBDA r : r.id = id)
    IN IF hits = <<>> THEN None ELSE Some(hits[1])

\* Variant of sorted_by_created_at that sorts in descending order.
RECURSIVE sorted_by_created_at_Descending(_)
sorted_by_created_at_Descending(ps) ==
    IF ps = <<>> THEN <<>>
    ELSE LET done == sorted_by_created_at_Descending(SubSeq(ps, 1, Len(ps) - 1))
             r == ps[Len(ps)]
             before == SelectSeq(done, LAMBDA q : q.created_at >= r.created_at)
             after == SelectSeq(done, LAMBDA q : q.created_at < r.created_at)
         IN before \o <<r>> \o after

\* sorted(values, key=lambda project: project.created_at): stable, so
\* records with equal created_at keep the order of the dict.
RECURSIVE sorted_by_created_at(_)
sorted_by_created_at(ps) ==
    IF ps = <<>> THEN <<>>
    ELSE LET done == sorted_by_created_at(SubSeq(ps, 1, Len(ps) - 1))
             r == ps[Len(ps)]
             before == SelectSeq(done, LAMBDA q : q.created_at <= r.created_at)
             after == SelectSeq(done, LAMBDA q : q.created_at > r.created_at)
         IN before \o <<r>> \o after

\* InMemoryProjectRepository.list
list(ps) == sorted_by_created_at(ps)

\* InMemoryProjectRepository.get: the record, or NotFoundError.
get(ps, id) ==
    IF IsNone(Lookup(ps, id))
    THEN [kind |-> "NotFoundError", id |-> id]
    ELSE [kind |-> "ok", value |-> Val(Lookup(ps, id))]

\* The dict after an attribute of the record of id is assigned.
Assign(ps, id, rec) == [i \in DOMAIN ps |-> IF ps[i].id = id THEN rec ELSE ps[i]]

\* del self._projects[project_id]
Del(ps, id) == SelectSeq(ps, LAMBDA r : r.id # id)

\* SolverService.solve_problem(payload): what the call may end with.
solve_problem(p) ==
    IF validate_problem(p, TRUE).raised
    THEN {[kind |-> "ValidationError", value |-> NoSolution]}
    ELSE LET c == _compile_problem(p)
         IN IF c.error # ""
            THEN {[kind |-> "ValueError", value |-> NoSolution]}
            ELSE {IF StatusAccepted(res.status)
                  THEN [kind |-> "ok", value |-> BuildSolution(p, c, res)]
                  ELSE [kind |-> "ValueError", value |-> NoSolution] :
                    res \in SolverResults(p, c)}

CanCall(t) == calls[t].pc = "idle" /\ ncalls < MaxCalls

Begin(t, op, at, id, name, prob, sol, project) ==
    /\ calls' = [calls EXCEPT ![t] =
                   [op |-> op, pc |-> at, id |-> id, name |-> name, problem |-> prob,
                    solution |-> sol, project |-> project, result |-> NoResult]]
    /\ ncalls' = ncalls + 1

Finish(t, result) ==
    calls' = [calls EXCEPT ![t].pc = "idle", ![t].result = result]

\* The ids a caller may name: those drawn so far and one never drawn.
KnownIds == 0..Len(ghost)

\* list_projects
ListProjects(t) ==
    /\ CanCall(t)
    /\ UNCHANGED solvervars
    /\ calls' = [calls EXCEPT ![t] =
                   [Idle EXCEPT !.op = "list",
                                !.result = [kind |-> "ok", value |-> list(_projects)]]]
    /\ ncalls' = ncalls + 1
    /\ UNCHANGED <<_projects, _lock, clock, ghost>>

\* get_project
GetProject(t) ==
    /\ CanCall(t)
    /\ UNCHANGED solvervars
    /\ \E id \in KnownIds :
          calls' = [calls EXCEPT ![t] =
                      [Idle EXCEPT !.op = "get", !.id = id,
                                   !.result = get(_projects, id)]]
    /\ ncalls' = ncalls + 1
    /\ UNCHANGED <<_projects, _lock, clock, ghost>>

\* create, up to the with statement: the clock is read and the record
\* is built.
CreateBegin(t) ==
    /\ CanCall(t)
    /\ UNCHANGED solvervars
    /\ \E name \in Names, prob \in ProjectProblems, now \in Now :
          /\ clock' = now
          /\ Begin(t, "create", "create_lock", Len(ghost) + 1, Some(name), Some(prob), None,
                   Some([id |-> Len(ghost) + 1, name |-> strip(name), problem |-> prob,
                         created_at |-> now, updated_at |-> now,
                         last_solution |-> None]))
          /\ ghost' = Append(ghost, [name |-> name, problem |-> prob,
                                     inserted |-> FALSE, deleted |-> FALSE])
    /\ UNCHANGED <<_projects, _lock>>

\* create: "with self._lock: self._projects[project.id] = project".
CreateWrite(t) ==
    /\ calls[t].pc = "create_lock"
    /\ UNCHANGED solvervars
    /\ _lock = 0
    /\ _projects' = Append(_projects, Val(calls[t].project))
    /\ ghost' = [ghost EXCEPT ![calls[t].id].inserted = TRUE]
    /\ Finish(t, [kind |-> "ok", value |-> Val(calls[t].project)])
    /\ UNCHANGED <<_lock, clock, ncalls>>

\* update is called: the call reaches "with self._lock".
UpdateBegin(t) ==
    /\ CanCall(t)
    /\ UNCHANGED solvervars
    /\ \E id \in KnownIds, name \in {None} \cup {Some(n) : n \in Names},
          prob \in {None} \cup {Some(q) : q \in ProjectProblems} :
          Begin(t, "update", "update_lock", id, name, prob, None, None)
    /\ UNCHANGED <<_projects, _lock, clock, ghost>>

\* delete is called.
DeleteBegin(t) ==
    /\ CanCall(t)
    /\ UNCHANGED solvervars
    /\ \E id \in KnownIds :
          Begin(t, "delete", "delete_lock", id, None, None, None, None)
    /\ UNCHANGED <<_projects, _lock, clock, ghost>>

\* attach_solution is called by itself, as the test does.
AttachBegin(t) ==
    /\ CanCall(t)
    /\ UNCHANGED solvervars
    /\ \E id \in KnownIds :
          Begin(t, "attach", "set_solution_lock", id, None, None, Some(TestSolution), None)
    /\ UNCHANGED <<_projects, _lock, clock, ghost>>

\* Variant of Acquire that goes into the with statement without waiting
\* for the lock to be free.
Acquire_NoWait(t, from, to) ==
    /\ calls[t].pc = from
    /\ UNCHANGED solvervars
    /\ _lock' = t
    /\ calls' = [calls EXCEPT ![t].pc = to]
    /\ UNCHANGED <<_projects, clock, ncalls, ghost>>

\* "with self._lock" of a call that is at the pc from: the call waits
\* until the lock is free, takes it and goes on at the pc to.
Acquire(t, from, to) ==
    /\ calls[t].pc = from
    /\ UNCHANGED solvervars
    /\ _lock = 0
    /\ _lock' = t
    /\ calls' = [calls EXCEPT ![t].pc = to]
    /\ UNCHANGED <<_projects, clock, ncalls, ghost>>

\* update, delete and set_solution enter "with self._lock".
UpdateAcquire(t) == Acquire(t, "update_lock", "update_get")

DeleteAcquire(t) == Acquire(t, "delete_lock", "delete_check")

AttachAcquire(t) == Acquire(t, "set_solution_lock", "set_solution_get")

\* Variant of Raise that leaves the with statement without releasing the
\* lock.
Raise_KeepLock(t, result) ==
    /\ Finish(t, result)
    /\ UNCHANGED <<_lock, _projects, clock, ghost, ncalls>>

\* An exception raised inside "with self._lock": the lock is released and
\* the call ends with the exception.
Raise(t, result) ==
    /\ _lock' = 0
    /\ Finish(t, result)
    /\ UNCHANGED <<_projects, clock, ghost, ncalls>>

\* The record object a call got from self.get: the one the dict holds
\* under the id, with the attributes it has now; once the dict has dropped
\* it, the object as the call saw it.
Held(c) ==
    IF IsNone(Lookup(_projects, c.id)) THEN Val(c.project)
    ELSE Val(Lookup(_projects, c.id))

\* update inside the lock: project = self.get(project_id).
UpdateGet(t) ==
    /\ calls[t].pc = "update_get"
    /\ UNCHANGED solvervars
    /\ LET got == get(_projects, calls[t].id)
       IN IF got.kind # "ok"
          THEN Raise(t, got)
          ELSE /\ calls' = [calls EXCEPT ![t].pc = "update_assign",
                                         ![t].project = Some(got.value)]
               /\ UNCHANGED <<_projects, _lock, clock, ncalls, ghost>>

\* update inside the lock: the assignments to the record that get
\* returned, then the return that leaves the with statement.  The record
\* is the object held by the dict, if the dict still holds it.
UpdateAssign(t) ==
    /\ calls[t].pc = "update_assign"
    /\ UNCHANGED solvervars
    /\ LET c == calls[t]
       IN \E now \in Now :
            LET rec == [Held(c) EXCEPT
                          !.name = IF IsNone(c.name) THEN @ ELSE strip(Val(c.name)),
                          !.problem = IF IsNone(c.problem) THEN @ ELSE Val(c.problem),
                          !.updated_at = now]
            IN /\ _projects' = Assign(_projects, c.id, rec)
               /\ clock' = now
               /\ ghost' = [ghost EXCEPT
                              ![c.id].name = IF IsNone(c.name) THEN @ ELSE Val(c.name),
                              ![c.id].problem = IF IsNone(c.problem) THEN @
                                                ELSE Val(c.problem)]
               /\ _lock' = 0
               /\ Finish(t, [kind |-> "ok", value |-> rec])
               /\ UNCHANGED ncalls

\* delete inside the lock: "if project_id not in self._projects: raise".
DeleteCheck(t) ==
    /\ calls[t].pc = "delete_check"
    /\ UNCHANGED solvervars
    /\ IF IsNone(Lookup(_projects, calls[t].id))
       THEN Raise(t, [kind |-> "NotFoundError", id |-> calls[t].id])
       ELSE /\ calls' = [calls EXCEPT ![t].pc = "delete_del"]
            /\ UNCHANGED <<_projects, _lock, clock, ncalls, ghost>>

\* delete inside the lock: "del self._projects[project_id]", then the end
\* of the with statement.
DeleteDel(t) ==
    /\ calls[t].pc = "delete_del"
    /\ UNCHANGED solvervars
    /\ _projects' = Del(_projects, calls[t].id)
    /\ ghost' = [ghost EXCEPT ![calls[t].id].deleted = TRUE]
    /\ _lock' = 0
    /\ Finish(t, [kind |-> "ok"])
    /\ UNCHANGED <<clock, ncalls>>

\* set_solution inside the lock: project = self.get(project_id).
SetSolutionGet(t) ==
    /\ calls[t].pc = "set_solution_get"
    /\ UNCHANGED solvervars
    /\ LET got == get(_projects, calls[t].id)
       IN IF got.kind # "ok"
          THEN Raise(t, got)
          ELSE /\ calls' = [calls EXCEPT ![t].pc = "set_solution_assign",
                                         ![t].project = Some(got.value)]
               /\ UNCHANGED <<_projects, _lock, clock, ncalls, ghost>>

\* set_solution inside the lock: the assignments and the return.
SetSolutionAssign(t) ==
    /\ calls[t].pc = "set_solution_assign"
    /\ UNCHANGED solvervars
    /\ LET c == calls[t]
       IN \E now \in Now :
            LET rec == [Held(c) EXCEPT !.last_solution = c.solution,
                                              !.updated_at = now]
            IN /\ _projects' = Assign(_projects, c.id, rec)
               /\ clock' = now
               /\ _lock' = 0
               /\ Finish(t, [kind |-> "ok", value |-> rec])
               /\ UNCHANGED <<ghost, ncalls>>

\* solve_project: project = project_service.get_project(project_id)
SolveProjectGet(t) ==
    /\ CanCall(t)
    /\ UNCHANGED solvervars
    /\ \E id \in KnownIds :
          LET got == get(_projects, id)
          IN IF got.kind # "ok"
             THEN /\ calls' = [calls EXCEPT ![t] =
                                 [Idle EXCEPT !.op = "solve_project", !.id = id,
                                              !.result = got]]
                  /\ ncalls' = ncalls + 1
             ELSE Begin(t, "solve_project", "solving", id, None,
                        Some(got.value.problem), None, None)
    /\ UNCHANGED <<_projects, _lock, clock, ghost>>

\* Variant of SolveProjectSolve that goes on to attach whatever
\* solve_problem ended with.
SolveProjectSolve_AttachAnyway(t) ==
    /\ calls[t].pc = "solving"
    /\ UNCHANGED solvervars
    /\ \E res \in solve_problem(Val(calls[t].problem)) :
          calls' = [calls EXCEPT ![t].pc = "attach", ![t].solution = Some(res.value)]
    /\ UNCHANGED <<_projects, _lock, clock, ncalls, ghost>>

\* solve_project: solution = solver_service.solve_problem(project.problem)
SolveProjectSolve(t) ==
    /\ calls[t].pc = "solving"
    /\ UNCHANGED solvervars
    /\ \E res \in solve_problem(Val(calls[t].problem)) :
          calls' = IF res.kind = "ok"
                   THEN [calls EXCEPT ![t].pc = "attach", ![t].solution = Some(res.value)]
                   ELSE [calls EXCEPT ![t].pc = "idle", ![t].result = [kind |-> res.kind]]
    /\ UNCHANGED <<_projects, _lock, clock, ncalls, ghost>>

\* solve_project: project_service.attach_solution(project_id, solution)
\* enters the lock of set_solution.
SolveProjectAttach(t) == Acquire(t, "attach", "set_solution_get")

Step(t) ==
    \/ ListProjects(t)
    \/ GetProject(t)
    \/ CreateBegin(t)
    \/ CreateWrite(t)
    \/ UpdateBegin(t)
    \/ UpdateAcquire(t)
    \/ UpdateGet(t)
    \/ UpdateAssign(t)
    \/ DeleteBegin(t)
    \/ DeleteAcquire(t)
    \/ DeleteCheck(t)
    \/ DeleteDel(t)
    \/ AttachBegin(t)
    \/ AttachAcquire(t)
    \/ SetSolutionGet(t)
    \/ SetSolutionAssign(t)
    \/ SolveProjectGet(t)
    \/ SolveProjectSolve(t)
    \/ SolveProjectAttach(t)

\* One client: the calls run one after the other.
StoreNext == Step(1)

\* No call of the solver service by itself is under way.
StoreSpecInit ==
    /\ problem = EmptyProblem
    /\ pc = "idle"
    /\ report = NoReport
    /\ outcome = NoOutcome
    /\ solution = NoSolution
    /\ values = NoValues
    /\ StoreInit

StoreSpec == StoreSpecInit /\ [][StoreNext]_vars

\* The routes of the projects router, called by several clients at once.
ApiStep(t) ==
    \/ ListProjects(t)
    \/ GetProject(t)
    \/ CreateBegin(t)
    \/ CreateWrite(t)
    \/ UpdateBegin(t)
    \/ UpdateAcquire(t)
    \/ UpdateGet(t)
    \/ UpdateAssign(t)
    \/ DeleteBegin(t)
    \/ DeleteAcquire(t)
    \/ DeleteCheck(t)
    \/ DeleteDel(t)
    \/ SetSolutionGet(t)
    \/ SetSolutionAssign(t)
    \/ SolveProjectGet(t)
    \/ SolveProjectSolve(t)
    \/ SolveProjectAttach(t)

ApiNext == \E t \in Threads : ApiStep(t)

ApiSpec == StoreSpecInit /\ [][ApiNext]_vars

\* The inputs of the calls made on the repository by itself: the problem
\* is opaque to the repository, so a project is created with the empty
\* problem and an update replaces the name or the problem.
RepoInputs(c) ==
    /\ c.op = "create" => c.problem = Some(EmptyProblem)
    /\ c.op = "update" =>
          /\ IsNone(c.name) # IsNone(c.problem)
          /\ c.problem # Some(EmptyProblem)

\* create, update, delete and set_solution of one repository, called by
\* several threads at once.
RepoStep(t) ==
    \/ CreateBegin(t) /\ RepoInputs(calls'[t])
    \/ CreateWrite(t)
    \/ UpdateBegin(t) /\ RepoInputs(calls'[t])
    \/ UpdateAcquire(t)
    \/ UpdateGet(t)
    \/ UpdateAssign(t)
    \/ DeleteBegin(t)
    \/ DeleteAcquire(t)
    \/ DeleteCheck(t)
    \/ DeleteDel(t)
    \/ AttachBegin(t)
    \/ AttachAcquire(t)
    \/ SetSolutionGet(t)
    \/ SetSolutionAssign(t)

RepoNext == \E t \in Threads : RepoStep(t)

RepoSpec == StoreSpecInit /\ [][RepoNext]_vars


-----------------------------------------------------------------------------
(* Properties of the solutions solve_problem returns.                      *)

\* solve_problem returned a TimetableSolution.
Returned == pc = "done" /\ outcome.kind = "solution"

\* The requirement behind the n-th unit event: requirements in declaration
\* order, each repeated periods_per_week times.
ExpectedReqs(p) ==
    Concat([r \in 1..Len(p.requirements) |->
              [i \in 1..p.requirements[r].periods_per_week |-> p.requirements[r]]])

Entries == 1..Len(solution.scheduled)

Entry(n) == solution.scheduled[n]

ReqOf(n) == ExpectedReqs(problem)[n]

TeacherOf(n) == solution.teacher_assignment[Key(ReqOf(n))]

\* C1: a returned solution has sum(periods_per_week) scheduled entries and
\* every event id "{group}-{subject}-{NN}" occurs in exactly one of them.
C1_EveryEventScheduledOnce ==
    Returned =>
      /\ Len(solution.scheduled)
           = SumSeq([r \in 1..Len(problem.requirements) |->
                       problem.requirements[r].periods_per_week])
      /\ \A r \in 1..Len(problem.requirements) :
           \A i \in 1..problem.requirements[r].periods_per_week :
              Cardinality({n \in Entries :
                 Entry(n).event_id = EventId(problem.requirements[r], i)}) = 1

C1_Witness ==
    /\ Returned
    /\ Len(problem.requirements) = 2
    /\ Len(solution.scheduled) = 3

\* C2: in a returned solution no two distinct events of one group share a
\* slot and no two distinct events in one room share a slot.
C2_NoGroupOrRoomDoubleBooking ==
    Returned =>
      \A n, m \in Entries :
        (n # m /\ Entry(n).slot = Entry(m).slot) =>
           /\ ReqOf(n).group_id # ReqOf(m).group_id
           /\ Entry(n).room_id # Entry(m).room_id

\* Two subjects of one group in different rooms, and two groups in one room.
C2_Witness ==
    /\ Returned
    /\ \E n, m \in Entries :
         /\ ReqOf(n).group_id = ReqOf(m).group_id
         /\ ReqOf(n).subject_id # ReqOf(m).subject_id
         /\ Entry(n).room_id # Entry(m).room_id
    /\ \E n, m \in Entries :
         /\ n # m
         /\ Entry(n).room_id = Entry(m).room_id

\* C3: in a returned solution no teacher, as given by teacher_assignment,
\* has two distinct events in one slot, also across FIXED and CHOOSE keys.
C3_NoTeacherDoubleBooking ==
    Returned =>
      \A n, m \in Entries :
        (n # m /\ TeacherOf(n) = TeacherOf(m)) => Entry(n).slot # Entry(m).slot

\* A FIXED key and a CHOOSE key of two groups taught by the same teacher.
C3_Witness ==
    /\ Returned
    /\ \E n, m \in Entries :
         /\ ReqOf(n).group_id # ReqOf(m).group_id
         /\ ReqOf(n).teacher_policy = "FIXED"
         /\ ReqOf(m).teacher_policy = "CHOOSE"
         /\ TeacherOf(n) = TeacherOf(m)

\* C4: in a returned solution every event's room has the type its subject
\* requires, holds the group, and is not unavailable at the event's slot.
C4_RoomFitsEvent ==
    Returned =>
      \A n \in Entries :
        LET room == index_rooms(problem)[Entry(n).room_id]
            sub == index_subjects(problem)[ReqOf(n).subject_id]
            g == index_groups(problem)[ReqOf(n).group_id]
        IN /\ room.type = sub.room_type_required
           /\ room.capacity >= g.size
           /\ Entry(n).slot \notin room.unavailable

\* An event in a room with unavailable slots, while another room of the
\* right type is too small and a third has the wrong type.
C4_Witness ==
    /\ Returned
    /\ \E n \in Entries :
         LET sub == index_subjects(problem)[ReqOf(n).subject_id]
             g == index_groups(problem)[ReqOf(n).group_id]
         IN /\ index_rooms(problem)[Entry(n).room_id].unavailable # {}
            /\ \E r \in Range(problem.rooms) :
                  r.type = sub.room_type_required /\ r.capacity < g.size
            /\ \E r \in Range(problem.rooms) : r.type # sub.room_type_required

\* C5: in a returned solution the teacher assigned to a key is available at
\* the slot of every event of the key and can teach the key's subject.
C5_TeacherAvailableAndAble ==
    Returned =>
      \A n \in Entries :
        LET t == index_teachers(problem)[TeacherOf(n)]
        IN /\ Entry(n).slot \notin t.unavailable
           /\ ReqOf(n).subject_id \in t.can_teach

\* A CHOOSE key whose chosen teacher has unavailable slots, in a problem
\* with a teacher who cannot teach the subject.
C5_Witness ==
    /\ Returned
    /\ \E n \in Entries :
         /\ ReqOf(n).teacher_policy = "CHOOSE"
         /\ index_teachers(problem)[TeacherOf(n)].unavailable # {}
         /\ \E t \in Range(problem.teachers) :
               ReqOf(n).subject_id \notin t.can_teach

\* C6: in a returned solution a teacher with max_periods_per_day teaches at
\* most that many events on each day, and a teacher with
\* max_periods_per_week teaches at most that many events in all.
C6_TeacherCapsRespected ==
    Returned =>
      \A t \in Range(problem.teachers) :
        LET mine == {n \in Entries : TeacherOf(n) = t.id}
        IN /\ (~IsNone(t.max_periods_per_day)) =>
                \A d \in Range(problem.calendar.days) :
                   Cardinality({n \in mine : Entry(n).slot.day = d})
                     <= Val(t.max_periods_per_day)
           /\ (~IsNone(t.max_periods_per_week)) =>
                Cardinality(mine) <= Val(t.max_periods_per_week)

\* A teacher at both caps: one event on each of two days, two in the week.
C6_Witness ==
    /\ Returned
    /\ \E t \in Range(problem.teachers) :
         /\ t.max_periods_per_day = Some(1)
         /\ t.max_periods_per_week = Some(2)
         /\ Cardinality({n \in Entries : TeacherOf(n) = t.id}) = 2
         /\ Len(solution.scheduled) = 3

\* C7: in a returned solution, for every key and day, every window of
\* max_consecutive + 1 consecutive period numbers inside the day holds at
\* most max_consecutive events of the key, blocked periods included in the
\* window, and the key has at most subject.max_per_day events on the day.
C7_ConsecutiveAndPerDayLimits ==
    Returned =>
      \A r \in 1..Len(problem.requirements) :
        LET req == problem.requirements[r]
            sub == index_subjects(problem)[req.subject_id]
            mine == {n \in Entries : Key(ReqOf(n)) = Key(req)}
        IN \A d \in Range(problem.calendar.days) :
             /\ (~IsNone(req.max_consecutive)) =>
                  \A start \in 1..(problem.calendar.periods_per_day
                                     - Val(req.max_consecutive)) :
                     Cardinality({n \in mine :
                        /\ Entry(n).slot.day = d
                        /\ Entry(n).slot.period \in
                             start..(start + Val(req.max_consecutive))})
                       <= Val(req.max_consecutive)
             /\ (~IsNone(sub.max_per_day)) =>
                  Cardinality({n \in mine : Entry(n).slot.day = d})
                    <= Val(sub.max_per_day)

\* Two events of a key with max_consecutive 1 on one day, around a blocked
\* period, under a max_per_day of 2.
C7_Witness ==
    /\ Returned
    /\ Slot("mon", 2) \in problem.calendar.blocked_slots
    /\ problem.requirements[1].max_consecutive = Some(1)
    /\ problem.subjects[1].max_per_day = Some(2)
    /\ \E n, m \in Entries :
         /\ n # m
         /\ Entry(n).slot.day = "mon"
         /\ Entry(m).slot.day = "mon"

\* The slot indices the compiler allows for the events of requirement req.
AllowedSlotsOf(p, req) == possible_slots_for(p, req, pool_for(p, req))

\* C8: with forbidden_periods_hard no event of a returned solution lies in
\* a period its requirement forbids; every event's slot is one of the
\* slots the compiler allowed for it; without forbidden_periods_hard the
\* allowed slots are those of the requirement without forbidden periods.
C8_ForbiddenPeriodsHardOrAllowed ==
    Returned =>
      /\ \A n \in Entries :
           /\ Entry(n).slot \in Range(AllowedSlotsOf(problem, ReqOf(n)))
           /\ (problem.config.forbidden_periods_hard
                 /\ ~IsNone(ReqOf(n).forbidden_periods)) =>
                Entry(n).slot.period \notin Val(ReqOf(n).forbidden_periods)
      /\ (~problem.config.forbidden_periods_hard) =>
           \A r \in 1..Len(problem.requirements) :
              AllowedSlotsOf(problem, problem.requirements[r])
                = AllowedSlotsOf(problem,
                    [problem.requirements[r] EXCEPT !.forbidden_periods = None])

\* Hard: S5 in small, periods {1, 2} forbidden in a day of three and every
\* event in period 3.
C8_Witness ==
    /\ Returned
    /\ problem.config.forbidden_periods_hard
    /\ problem.calendar.periods_per_day = 3
    /\ problem.requirements[1].forbidden_periods = Some({1, 2})
    /\ Len(solution.scheduled) = 2
    /\ \A n \in Entries : Entry(n).slot.period = 3

\* The teachers the key of req may get: the fixed teacher, the explicit
\* pool, or everyone who can teach the subject.
KeyPool(p, req) ==
    IF req.teacher_policy = "FIXED"
    THEN {Val(req.teacher_id)}
    ELSE IF TruthySeq(req.teacher_pool)
    THEN Range(Val(req.teacher_pool))
    ELSE {t.id : t \in {u \in Range(p.teachers) : req.subject_id \in u.can_teach}}

\* C9: teacher_assignment of a returned solution gives every requirement
\* key exactly one teacher, a member of the key's pool, and the
\* requirement's teacher_id when the policy is FIXED.
C9_OneTeacherPerKeyFromPool ==
    Returned =>
      /\ DOMAIN solution.teacher_assignment
           = {Key(problem.requirements[r]) : r \in 1..Len(problem.requirements)}
      /\ \A r \in 1..Len(problem.requirements) :
           LET req == problem.requirements[r]
               tid == solution.teacher_assignment[Key(req)]
           IN /\ tid \in KeyPool(problem, req)
              /\ req.teacher_policy = "FIXED" => tid = Val(req.teacher_id)

\* A FIXED key next to a CHOOSE key with an explicit pool smaller than the
\* set of teachers who can teach the subject.
C9_Witness ==
    /\ Returned
    /\ Len(problem.requirements) = 2
    /\ problem.requirements[1].teacher_policy = "FIXED"
    /\ problem.requirements[2].teacher_policy = "CHOOSE"
    /\ problem.requirements[2].teacher_pool = Some(<<"T2">>)
    /\ Len(solution.scheduled) = 3

-----------------------------------------------------------------------------
(* Properties of the validator's report.                                   *)

\* validate_problem returned its report.
Reported == pc = "reported"

\* C10: the validator never short-circuits: every check whose condition is
\* violated has its error in the report, whatever was found before it;
\* stated for the checks of the calendar and of each requirement that need
\* no other entity to be evaluated.
C10_EveryViolatedCheckReported ==
    Reported =>
      LET cal == problem.calendar
          errs == Range(report.errors)
      IN /\ cal.days = <<>> => <<"days_empty">> \in errs
         /\ cal.periods_per_day <= 0 => <<"periods_per_day_not_positive">> \in errs
         /\ \A s \in cal.blocked_slots :
              s.day \notin Range(cal.days) =>
                 <<"slot_day_unknown", "calendar", s>> \in errs
         /\ \A r \in 1..Len(problem.requirements) :
              LET req == problem.requirements[r]
              IN /\ req.group_id \notin DOMAIN index_groups(problem) =>
                      <<"req_group_unknown", req.group_id>> \in errs
                 /\ req.periods_per_week <= 0 =>
                      <<"periods_per_week_not_positive", Key(req)>> \in errs
                 /\ ((~IsNone(req.max_consecutive))
                       /\ Val(req.max_consecutive) <= 0) =>
                      <<"max_consecutive_not_positive", Key(req)>> \in errs
                 /\ (req.teacher_policy = "FIXED" /\ TruthyStr(req.teacher_id)
                       /\ Val(req.teacher_id) \notin DOMAIN index_teachers(problem)) =>
                      <<"fixed_teacher_unknown", Key(req)>> \in errs

\* C11: strict validate_problem raises ValidationError with exactly the
\* accumulated errors iff there is at least one error; otherwise, and
\* always in non-strict mode, the report has ok = (errors is empty), so
\* warnings alone neither clear ok nor raise.
C11_StrictRaisesIffErrors ==
    LET rep == ValidationReport(problem)
    IN /\ Reported =>
            /\ report.errors = rep.errors
            /\ report.warnings = rep.warnings
            /\ report.ok = (report.errors = <<>>)
       /\ pc = "done" =>
            /\ (outcome.kind = "ValidationError") = (rep.errors # <<>>)
            /\ outcome.kind = "ValidationError" => outcome.errors = rep.errors

\* The strict call raised with several errors while warnings were found too.
C11_Witness ==
    /\ pc = "done"
    /\ outcome.kind = "ValidationError"
    /\ Len(outcome.errors) >= 2
    /\ ValidationReport(problem).warnings # <<>>

\* C12: for a problem the validator accepts, _compile_problem does not fail
\* and every event has a non-empty allowed_slots and allowed_rooms.
C12_AcceptedProblemsCompile ==
    ((Reported /\ report.ok) \/ (pc = "done" /\ outcome.kind # "ValidationError")) =>
      LET c == _compile_problem(problem)
      IN /\ outcome.kind # "CompileError"
         /\ c.error = ""
         /\ \A n \in 1..Len(c.events) :
              /\ c.allowed_slots[c.events[n].id] # <<>>
              /\ c.allowed_rooms[c.events[n].id] # <<>>

\* An accepted problem whose forbidden periods and teacher unavailability
\* leave an event fewer slots than the calendar has.
C12_Witness ==
    /\ Reported
    /\ report.ok
    /\ problem.config.forbidden_periods_hard
    /\ LET c == _compile_problem(problem)
       IN /\ Len(c.events) = 2
          /\ Len(c.allowed_slots[c.events[1].id]) = 2
          /\ Len(c.slots) = 6

\* The periods_per_week events of req fit its possible slots under the
\* max_consecutive windows of every day.
WindowPlaceable(p, req) ==
    \/ IsNone(req.max_consecutive)
    \/ \E S \in SUBSET Range(_possible_slots_for_requirement(p, req)) :
         /\ Cardinality(S) = req.periods_per_week
         /\ \A d \in Range(p.calendar.days) :
              \A start \in 1..(p.calendar.periods_per_day - Val(req.max_consecutive)) :
                 Cardinality({s \in S :
                    /\ s.day = d
                    /\ s.period \in start..(start + Val(req.max_consecutive))})
                   <= Val(req.max_consecutive)

\* C13: the validator reports ok = false when a requirement's
\* periods_per_week cannot be placed under the max_consecutive window cap
\* of the calendar, as in scenario S6.
C13_UnplaceableUnderWindowsRejected ==
    Reported =>
      \A r \in 1..Len(problem.requirements) :
         ~WindowPlaceable(problem, problem.requirements[r]) => ~report.ok

\* The summed periods_per_week of the requirements of group g, and of the
\* requirements FIXED to teacher tid.
GroupLoad(g) ==
    SumSeq([r \in 1..Len(problem.requirements) |->
              IF problem.requirements[r].group_id = g
              THEN problem.requirements[r].periods_per_week ELSE 0])

FixedLoad(tid) ==
    SumSeq([r \in 1..Len(problem.requirements) |->
              IF /\ problem.requirements[r].teacher_policy = "FIXED"
                 /\ problem.requirements[r].teacher_id = Some(tid)
              THEN problem.requirements[r].periods_per_week ELSE 0])

\* C14: capacity sanity.  A group whose summed periods_per_week exceeds the
\* number of teaching slots gets an error naming it, and only a warning when
\* equal; a teacher with FIXED requirements whose summed load exceeds the
\* teaching slots the teacher is available in, or max_periods_per_week,
\* gets the matching error; a load below min_periods_per_week gets a
\* warning and no error of its own.
C14_CapacitySanity ==
    Reported =>
      LET errs == Range(report.errors)
          warns == Range(report.warnings)
          ts == Range(teaching_slots(problem.calendar))
          spw == Len(teaching_slots(problem.calendar))
      IN /\ \A r \in 1..Len(problem.requirements) :
              LET g == problem.requirements[r].group_id
              IN /\ (<<"group_overload", g>> \in errs) = (GroupLoad(g) > spw)
                 /\ (<<"group_full", g>> \in warns) = (GroupLoad(g) = spw)
         /\ \A t \in Range(problem.teachers) :
              (\E r \in 1..Len(problem.requirements) :
                  /\ problem.requirements[r].teacher_policy = "FIXED"
                  /\ problem.requirements[r].teacher_id = Some(t.id)) =>
                LET load == FixedLoad(t.id)
                    avail == Cardinality({s \in ts : s \notin t.unavailable})
                IN /\ (<<"teacher_load_gt_available", t.id>> \in errs)
                        = (load > avail)
                   /\ (<<"teacher_load_gt_max_week", t.id>> \in errs)
                        = ((~IsNone(t.max_periods_per_week))
                             /\ load > Val(t.max_periods_per_week))
                   /\ (<<"teacher_load_lt_min_week", t.id>> \in warns)
                        = ((~IsNone(t.min_periods_per_week))
                             /\ load < Val(t.min_periods_per_week))

\* Two requirements of one group exceed the week while the fixed teacher of
\* one stays below min_periods_per_week.
C14_Witness ==
    /\ Reported
    /\ <<"group_overload", "G1">> \in Range(report.errors)
    /\ <<"teacher_load_lt_min_week", "T1">> \in Range(report.warnings)
    /\ <<"teacher_load_gt_available", "T1">> \notin Range(report.errors)
    /\ Len(problem.requirements) = 2

\* C15: a solution is returned only when the solver ended OPTIMAL or
\* FEASIBLE, and it then schedules every compiled event; with any other
\* status the call raises an error that carries the status name and no
\* solution is produced.
C15_SolutionOnlyOnAcceptedStatus ==
    /\ Returned =>
         /\ outcome.status \in {"OPTIMAL", "FEASIBLE"}
         /\ Len(solution.scheduled) = Len(_compile_problem(problem).events)
    /\ (pc = "done" /\ outcome.kind = "NoSolution") =>
         /\ outcome.status \notin {"OPTIMAL", "FEASIBLE"}
         /\ solution = NoSolution

\* The solver stopped with UNKNOWN on a problem that has a timetable.
C15_Witness ==
    /\ pc = "done"
    /\ outcome.kind = "NoSolution"
    /\ outcome.status = "UNKNOWN"
    /\ solution = NoSolution
    /\ Feasible(problem, _compile_problem(problem)) # {}

\* C16: solve_problem calls problem_from_dict, validate_problem, solve and
\* solution_to_dict in this order; solve is reached only for a problem in
\* which validation finds no error, and a problem with an error ends in
\* ValidationError after validate_problem, with no solve and no solution.
C16_StagesInOrder ==
    pc = "done" =>
      LET st == outcome.stages
          errs == ValidationReport(problem).errors
      IN /\ Len(st) >= 2
         /\ st[1] = "problem_from_dict"
         /\ st[2] = "validate_problem"
         /\ \A i \in DOMAIN st :
              /\ st[i] = "solve" => (i = 3 /\ errs = <<>>)
              /\ st[i] = "solution_to_dict" => (i = 4 /\ outcome.kind = "solution")
         /\ errs # <<>> =>
              /\ outcome.kind = "ValidationError"
              /\ st = <<"problem_from_dict", "validate_problem">>
              /\ solution = NoSolution

\* A rejected call stopped after validate_problem.
C16_Witness ==
    /\ pc = "done"
    /\ outcome.kind = "ValidationError"
    /\ outcome.stages = <<"problem_from_dict", "validate_problem">>
    /\ ValidationReport(problem).errors # <<>>

\* The ids of the projects created and not deleted, in creation order.
LiveIds ==
    SelectSeq([i \in 1..Len(ghost) |-> i],
              LAMBDA id : ghost[id].inserted /\ ~ghost[id].deleted)

\* C17: list_projects returns exactly the projects created and not yet
\* deleted, in creation order; get_project of a listed id returns that
\* project with the name (stripped of the blanks around it) and the problem
\* it was last given; a deleted project is not listed and not found.
C17_ListedAreLiveInCreationOrder ==
    LET listed == list(_projects)
    IN /\ [i \in 1..Len(listed) |-> listed[i].id] = LiveIds
       /\ \A i \in 1..Len(listed) :
            LET got == get(_projects, listed[i].id)
            IN /\ got.kind = "ok"
               /\ got.value = listed[i]
               /\ got.value.name = strip(ghost[listed[i].id].name)
               /\ got.value.problem = ghost[listed[i].id].problem
       /\ \A id \in 1..Len(ghost) :
            ghost[id].deleted => get(_projects, id).kind = "NotFoundError"

\* Two projects created at the same reading of the clock, the first then
\* renamed with blanks around the name.
C17_Witness ==
    /\ Len(_projects) = 2
    /\ _projects[1].created_at = _projects[2].created_at
    /\ calls[1].op = "update"
    /\ calls[1].pc = "idle"
    /\ ghost[1].name = " Demo 2 "
    /\ _projects[1].name = "Demo 2"

\* A call of thread t ends in this step.
Ends(t) ==
    /\ calls'[t].pc = "idle"
    /\ calls[t].pc # "idle" \/ ncalls' # ncalls

\* C18: attach_solution on an existing project sets last_solution to the
\* given solution and changes nothing else but updated_at; solve_project
\* goes on to attach only a solution that solve_problem returned, and a
\* failed validation or solve ends the call with no project changed.
C18_AttachSetsOnlyLastSolution ==
    [][\A t \in Threads :
         /\ (calls[t].pc = "set_solution_assign" /\ ~IsNone(Lookup(_projects, calls[t].id))) =>
              LET old == Val(Lookup(_projects, calls[t].id))
                  new == Val(Lookup(_projects', calls[t].id))
              IN /\ ~IsNone(Lookup(_projects', calls[t].id))
                 /\ new.last_solution = calls[t].solution
                 /\ new = [old EXCEPT !.last_solution = calls[t].solution,
                                      !.updated_at = new.updated_at]
                 /\ \A i \in DOMAIN _projects :
                      _projects[i].id # calls[t].id => _projects'[i] = _projects[i]
                 /\ Len(_projects') = Len(_projects)
         /\ (calls[t].pc = "solving" /\ calls'[t].pc # "solving") =>
              /\ _projects' = _projects
              /\ \/ /\ calls'[t].pc = "attach"
                    /\ \E res \in solve_problem(Val(calls[t].problem)) :
                          res.kind = "ok" /\ calls'[t].solution = Some(res.value)
                 \/ /\ calls'[t].pc = "idle"
                    /\ calls'[t].result.kind \in {"ValidationError", "ValueError"}
         /\ \A i \in DOMAIN _projects :
              (/\ i \in DOMAIN _projects'
               /\ _projects'[i].id = _projects[i].id
               /\ _projects'[i].last_solution # _projects[i].last_solution) =>
                 \E u \in Threads : /\ calls[u].pc = "set_solution_assign"
                                    /\ calls[u].id = _projects[i].id
      ]_vars

\* solve_project ended after attaching the solution of the project's problem.
C18_Witness ==
    /\ calls[1].op = "solve_project"
    /\ calls[1].pc = "idle"
    /\ calls[1].result.kind = "ok"
    /\ Len(_projects) = 1
    /\ _projects[1].last_solution = calls[1].solution
    /\ Len(Val(_projects[1].last_solution).scheduled) = 1

\* C19: get, update, delete and set_solution on an id that is not stored
\* end with NotFoundError, leave the projects as they were and leave the
\* lock free, and no ended call holds the lock.
C19_MissingIdRaisesAndReleases ==
    [][\A t \in Threads :
         /\ (/\ Ends(t)
             /\ calls'[t].op \in {"get", "update", "delete", "attach"}
             /\ IsNone(Lookup(_projects, calls'[t].id))) =>
               /\ calls'[t].result = [kind |-> "NotFoundError", id |-> calls'[t].id]
               /\ _projects' = _projects
               /\ _lock' = 0
         /\ calls'[t].pc = "idle" => _lock' # t
      ]_vars

\* A second delete of the same project ended with NotFoundError.
C19_Witness ==
    /\ calls[1].op = "delete"
    /\ calls[1].pc = "idle"
    /\ calls[1].result.kind = "NotFoundError"
    /\ Len(ghost) = 1
    /\ ghost[1].deleted
    /\ _lock = 0

\* The terms emitted into the objective of the returned solution: those
\* with a non-zero weight and at least one variable, which are the terms
\* with a non-zero weight among the entries of the breakdown.
EmittedTerms ==
    {t \in DOMAIN solution.objective_breakdown : problem.config.weights[t] # 0}

\* The sum of weight(t) * objective_breakdown[t] over the terms of ts.
RECURSIVE WeightedBreakdown(_)
WeightedBreakdown(ts) ==
    IF ts = {} THEN 0
    ELSE LET t == CHOOSE u \in ts : TRUE
         IN problem.config.weights[t] * solution.objective_breakdown[t]
              + WeightedBreakdown(ts \ {t})

\* C20: a non-null objective_value of a returned solution equals the sum,
\* over the emitted terms, of the term's weight times its entry in
\* objective_breakdown.
C20_ObjectiveValueIsWeightedBreakdown ==
    (Returned /\ ~IsNone(solution.objective_value)) =>
       Val(solution.objective_value) = WeightedBreakdown(EmittedTerms)

\* Two terms with a positive entry are emitted and a third, of weight 0,
\* has a positive entry that does not count.
C20_Witness ==
    /\ Returned
    /\ ~IsNone(solution.objective_value)
    /\ problem.config.weights.teacher_gaps = 0
    /\ "teacher_gaps" \in DOMAIN solution.objective_breakdown
    /\ solution.objective_breakdown["teacher_gaps"] > 0
    /\ {"teacher_late", "preferred_period_penalty"} \subseteq EmittedTerms
    /\ solution.objective_breakdown["teacher_late"] > 0
    /\ solution.objective_breakdown["preferred_period_penalty"] > 0
    /\ Val(solution.objective_value) > 0

\* C21: the breakdown of a returned solution has an entry for a term only
\* if the term was emitted into the objective (non-zero weight and at least
\* one variable), and objective_value is non-null iff some term was emitted.
C21_BreakdownOnlyEmittedTerms ==
    Returned =>
       /\ \A t \in DOMAIN solution.objective_breakdown :
             problem.config.weights[t] # 0
       /\ (~IsNone(solution.objective_value)) = (EmittedTerms # {})

\* The teacher teaches at the slot in the returned solution.
Teaches(tid, slot) ==
    \E n \in Entries : Entry(n).slot = slot /\ TeacherOf(n) = tid

\* The real gaps of the returned solution: (teacher, day, interior period)
\* with three teaching slots around it, the teacher free at the period and
\* teaching right before and right after it.
RealGaps ==
    LET ts == Range(teaching_slots(problem.calendar))
    IN { g \in Range(problem.teachers) \X Range(problem.calendar.days)
                 \X (2..(problem.calendar.periods_per_day - 1)) :
           /\ Slot(g[2], g[3] - 1) \in ts
           /\ Slot(g[2], g[3]) \in ts
           /\ Slot(g[2], g[3] + 1) \in ts
           /\ Teaches(g[1].id, Slot(g[2], g[3] - 1))
           /\ Teaches(g[1].id, Slot(g[2], g[3] + 1))
           /\ ~Teaches(g[1].id, Slot(g[2], g[3])) }

\* C22: in a returned solution whose breakdown has "teacher_gaps", the entry
\* is at least the number of real gaps, and equals it when the teacher_gaps
\* weight is positive and the status is OPTIMAL.
C22_TeacherGapsCountsRealGaps ==
    (Returned /\ "teacher_gaps" \in DOMAIN solution.objective_breakdown) =>
       /\ solution.objective_breakdown["teacher_gaps"] >= Cardinality(RealGaps)
       /\ (problem.config.weights["teacher_gaps"] > 0 /\ outcome.status = "OPTIMAL")
            => solution.objective_breakdown["teacher_gaps"] = Cardinality(RealGaps)

C22_Witness ==
    /\ Returned
    /\ "teacher_gaps" \in DOMAIN solution.objective_breakdown
    /\ problem.config.weights["teacher_gaps"] > 0
    /\ outcome.status = "OPTIMAL"
    /\ Cardinality(RealGaps) = 1
    /\ solution.objective_breakdown["teacher_gaps"] = 1

-----------------------------------------------------------------------------
(* solve.py, "Construir solucion", applied to any values of x, y and a:    *)
(* the reconstruction does not rely on the constraints, so its inputs here *)
(* are all 0/1 rows over the allowed slots, rooms and teachers.            *)

\* One event (or MaxPPW of them) on one day, two rooms and a pool of two
\* teachers.
ReconProblems ==
    {MkProblem(<<"mon">>, ppd, {},
        <<MkGroup("G1", 20)>>,
        <<MkSubject("MATH", "NORMAL", None)>>,
        <<MkTeacher("T1", {"MATH"}, {}, None, None),
          MkTeacher("T2", {"MATH"}, {}, None, None)>>,
        <<MkRoom("R1", "NORMAL", 30, {}), MkRoom("R2", "NORMAL", 30, {})>>,
        <<MkReq("G1", "MATH", 1, None, "CHOOSE", None, None, None)>>,
        TRUE) :
       ppd \in 2..MaxPeriods}

\* Every 0/1 valuation of the variables the compiled problem declares.
AnyValues(c) ==
    {[x |-> x, y |-> y, a |-> a] :
       x \in Prod([eid \in EventIds(c) |-> [Range(c.allowed_slots[eid]) -> Bit]]),
       y \in Prod([eid \in EventIds(c) |-> [Range(c.allowed_rooms[eid]) -> Bit]]),
       a \in Prod([k \in Range(c.keys) |-> [Range(c.key_pools[k]) -> Bit]])}

ReconInit ==
    /\ problem \in ReconProblems
    /\ pc = "solved"
    /\ report = NoReport
    /\ outcome = NoOutcome
    /\ solution = NoSolution
    /\ values = NoValues
    /\ StoreInit

\* solve.py 428-444 on the values read from the solver.
ReadValues ==
    /\ pc = "solved"
    /\ LET c == _compile_problem(problem)
       IN \E v \in AnyValues(c) :
             /\ values' = v
             /\ solution' = Reconstruct(c, v)
    /\ pc' = "rebuilt"
    /\ UNCHANGED <<problem, report, outcome, storevars>>

ReconNext == ReadValues

ReconSpec == ReconInit /\ [][ReconNext]_vars

\* How many of seq's variables have value 1.
SetCount(seq, row) == Cardinality({j \in 1..Len(seq) : row[seq[j]] = 1})

\* C23: after reconstruction, an event with zero or several x set is in the
\* first slot of its allowed_slots, with zero or several y set in the first
\* room of its allowed_rooms, and a key with zero or several a set has the
\* first teacher of its pool.
C23_ZeroOrSeveralSetGivesFirstAllowed ==
    pc = "rebuilt" =>
      LET c == _compile_problem(problem)
      IN /\ \A n \in 1..Len(c.events) :
              LET eid == c.events[n].id
              IN /\ SetCount(c.allowed_slots[eid], values.x[eid]) # 1
                      => solution.scheduled[n].slot = c.slots[c.allowed_slots[eid][1]]
                 /\ SetCount(c.allowed_rooms[eid], values.y[eid]) # 1
                      => solution.scheduled[n].room_id = c.allowed_rooms[eid][1]
         /\ \A k \in Range(c.keys) :
              SetCount(c.key_pools[k], values.a[k]) # 1
                => solution.teacher_assignment[k] = c.key_pools[k][1]

\* The pool of a requirement as stated: the fixed teacher, the explicit
\* pool whenever one is given (an empty one included), else everyone who
\* can teach the subject.
StatedPool(p, req) ==
    IF req.teacher_policy = "FIXED"
    THEN {Val(req.teacher_id)}
    ELSE IF ~IsNone(req.teacher_pool)
    THEN Range(Val(req.teacher_pool))
    ELSE {t.id : t \in {u \in Range(p.teachers) : req.subject_id \in u.can_teach}}

\* C24: the pool is {teacher_id} when FIXED, else the explicit teacher_pool
\* whenever one is given (an empty one included), else all teachers who can
\* teach the subject: the report rejects a CHOOSE requirement whose pool is
\* empty or has an unknown teacher or one who cannot teach the subject, and
\* a returned solution assigns every key a teacher of its pool.
C24_PoolIsExplicitWheneverGiven ==
    /\ Reported =>
         \A r \in 1..Len(problem.requirements) :
           LET req == problem.requirements[r]
               pool == StatedPool(problem, req)
           IN (/\ req.teacher_policy = "CHOOSE"
               /\ \/ pool = {}
                  \/ \E tid \in pool :
                       \/ tid \notin DOMAIN index_teachers(problem)
                       \/ req.subject_id \notin index_teachers(problem)[tid].can_teach)
                => ~report.ok
    /\ Returned =>
         \A r \in 1..Len(problem.requirements) :
           solution.teacher_assignment[Key(problem.requirements[r])]
             \in StatedPool(problem, problem.requirements[r])

-----------------------------------------------------------------------------
(* schema.py: Slot is a dataclass with order=True, so slots compare as the *)
(* tuples (day, period), the day being a Python str.  tests/glpk_solver.py *)
(* sorts the extracted events by (slot.day, slot.period, event_id).        *)

\* The code points of the day names used below (ord of each character).
CodePoints ==
    [mon |-> <<109, 111, 110>>, tue |-> <<116, 117, 101>>,
     wed |-> <<119, 101, 100>>, thu |-> <<116, 104, 117>>,
     fri |-> <<102, 114, 105>>]

DayNames == DOMAIN CodePoints

\* Python's < on two sequences: at the first index where they differ, or
\* by length when one is a prefix of the other.
SeqLess(s, t) ==
    \/ \E j \in 1..Min(Len(s), Len(t)) :
          /\ s[j] < t[j]
          /\ \A h \in 1..(j - 1) : s[h] = t[h]
    \/ /\ Len(s) < Len(t)
       /\ \A h \in 1..Len(s) : s[h] = t[h]

\* str.__lt__ on day names.
StrLess(d1, d2) == SeqLess(CodePoints[d1], CodePoints[d2])

\* Slot.__lt__ as generated by dataclass(order=True):
\* (day, period) < (other.day, other.period).
SlotLess(s1, s2) ==
    \/ StrLess(s1.day, s2.day)
    \/ s1.day = s2.day /\ s1.period < s2.period

\* sorted(scheduled, key=(slot.day, slot.period, event_id)) on events in
\* pairwise different slots, where event_id never decides: insertion of
\* each event before the first event with a greater slot.
RECURSIVE SortedBySlot(_)
SortedBySlot(seq) ==
    IF seq = <<>> THEN <<>>
    ELSE LET rest == SortedBySlot(Tail(seq))
             e == Head(seq)
             before == SelectSeq(rest, LAMBDA o : SlotLess(o.slot, e.slot))
             after == SelectSeq(rest, LAMBDA o : ~SlotLess(o.slot, e.slot))
         IN before \o <<e>> \o after

\* Two days out of DayNames in either order, two periods a day.
SortProblems ==
    {MkProblem(<<ds[1], ds[2]>>, 2, {},
        <<MkGroup("G1", 20)>>,
        <<MkSubject("MATH", "NORMAL", None)>>,
        <<MkTeacher("T1", {"MATH"}, {}, None, None)>>,
        <<MkRoom("R1", "NORMAL", 30, {})>>,
        <<MkReq("G1", "MATH", 2, None, "FIXED", Some("T1"), None, None)>>,
        TRUE) :
       ds \in {pr \in DayNames \X DayNames : pr[1] # pr[2]}}

\* The events as extracted from the solver's values, in event order, in
\* two different slots of the calendar.
SortInit ==
    /\ problem \in SortProblems
    /\ pc = "extracted"
    /\ report = NoReport
    /\ outcome = NoOutcome
    /\ \E s1 \in Range(all_slots(problem.calendar)) :
         \E s2 \in Range(all_slots(problem.calendar)) \ {s1} :
           solution = [scheduled |->
                         <<[event_id |-> "G1-MATH-01", slot |-> s1, room_id |-> "R1"],
                           [event_id |-> "G1-MATH-02", slot |-> s2, room_id |-> "R1"]>>,
                       teacher_assignment |-> <<>>]
    /\ values = NoValues
    /\ StoreInit

\* solve_with_glpk: scheduled=tuple(sorted(scheduled, key=...)).
SortScheduled ==
    /\ pc = "extracted"
    /\ solution' = [solution EXCEPT !.scheduled = SortedBySlot(@)]
    /\ pc' = "sorted"
    /\ UNCHANGED <<problem, report, outcome, values, storevars>>

SortNext == SortScheduled

SortSpec == SortInit /\ [][SortNext]_vars

\* s1 comes before s2 by (index of the day in calendar.days, period).
DeclaredBefore(cal, s1, s2) ==
    LET ix(d) == CHOOSE j \in 1..Len(cal.days) : cal.days[j] = d
    IN \/ ix(s1.day) < ix(s2.day)
       \/ s1.day = s2.day /\ s1.period < s2.period

\* C25: for any two slots of the calendar s1 < s2 exactly when s1's day
\* comes earlier in calendar.days, or the days are equal and s1's period is
\* smaller; the sorted scheduled events follow the declared day order.
C25_SlotsOrderedByDeclaredDayThenPeriod ==
    pc = "sorted" =>
      /\ \A s1, s2 \in Range(all_slots(problem.calendar)) :
            SlotLess(s1, s2) = DeclaredBefore(problem.calendar, s1, s2)
      /\ \A i, j \in 1..Len(solution.scheduled) :
            i < j => DeclaredBefore(problem.calendar,
                                    solution.scheduled[i].slot,
                                    solution.scheduled[j].slot)

-----------------------------------------------------------------------------
(* tests/glpk_solver.py: build_glpk_lp, the MILP over z[e, si, rid] and    *)
(* a[k, tid] written as an LP file.  A variable of the LP is its name:     *)
(* _LPModel.add_var keeps one variable per name.                           *)

\* re.sub(r"[^A-Za-z0-9_]", "_", name) on the ids and event ids of
\* GlpkProblems; every other id there has no character to replace.
Sanitized ==
    ("R-1" :> "R_1") @@ ("G1-MATH-01" :> "G1_MATH_01")
      @@ ("G1-MATH-02" :> "G1_MATH_02")

_sanitize(name) == IF name \in DOMAIN Sanitized THEN Sanitized[name] ELSE name

\* The keys of z_name in insertion order: (e.id, si, rid) for the allowed
\* slots and rooms of each event where the room is available.
ZKeys(p, c) ==
    LET rooms == index_rooms(p)
    IN Concat([n \in 1..Len(c.events) |->
         LET e == c.events[n]
         IN Concat([j \in 1..Len(c.allowed_slots[e.id]) |->
              LET si == c.allowed_slots[e.id][j]
                  all == [r \in 1..Len(c.allowed_rooms[e.id]) |->
                            [eid |-> e.id, group_id |-> e.group_id,
                             key |-> c.event_req_key[e.id], si |-> si,
                             rid |-> c.allowed_rooms[e.id][r]]]
              IN SelectSeq(all, LAMBDA t : is_available(rooms[t.rid], c.slots[si]))])])

\* vname = _sanitize(f"z__{e.id}__s{si}__r{rid}"), si counted from 0.
ZName(t) ==
    "z__" \o _sanitize(t.eid) \o "__s" \o ToString(t.si - 1)
          \o "__r" \o _sanitize(t.rid)

\* " + ".join(terms): the sum of the named variables, a name counted as
\* often as it occurs in the list.  zv[eid] values the names of event eid.
ZSum(zv, ts) == SumSeq([j \in 1..Len(ts) |-> zv[ts[j].eid][ZName(ts[j])]])

\* "1) Cada evento exactamente una vez"; an event without terms raises.
ZEventRow(zk, eid, row) ==
    LET ts == SelectSeq(zk, LAMBDA t : t.eid = eid)
    IN /\ ts # <<>>
       /\ SumSeq([j \in 1..Len(ts) |-> row[ZName(ts[j])]]) = 1

\* The values of the z variables that satisfy constraint 1), event by
\* event (the sanitized event ids of GlpkProblems are pairwise different,
\* so no name belongs to two events).
ZVals(c, zk) ==
    Prod([eid \in EventIds(c) |->
            {row \in [{ZName(t) : t \in {u \in Range(zk) : u.eid = eid}} -> Bit] :
               ZEventRow(zk, eid, row)}])

\* "2) Conflicto de grupo" and "3) Conflicto de aula".
ZConflicts(p, c, zk, zv) ==
    /\ \A g \in {c.events[n].group_id : n \in 1..Len(c.events)} :
         \A si \in SlotIdx(c) :
           ZSum(zv, SelectSeq(zk, LAMBDA t : t.group_id = g /\ t.si = si)) <= 1
    /\ \A rid \in DOMAIN index_rooms(p) : \A si \in SlotIdx(c) :
           ZSum(zv, SelectSeq(zk, LAMBDA t : t.rid = rid /\ t.si = si)) <= 1

\* The terms of occ[k, si], event by event: sum of z_by_key_slot[(k, si)]
\* restricted to one event.  OccSum of this valuation is the LP's occ.
ZOcc(c, zk, zv) ==
    [eid \in EventIds(c) |->
       [si \in Range(c.allowed_slots[eid]) |->
          ZSum(zv, SelectSeq(zk, LAMBDA t : t.eid = eid /\ t.si = si))]]

\* The constraints on occ, teach and busy (glpk_solver.py 214-332): occ is
\* binary and equals its sum, teach = a AND occ with teach = 0 where the
\* teacher is unavailable, busy = sum(teach) <= 1, the teachers' caps,
\* max_consecutive and Subject.max_per_day; statement by statement those of
\* the CP-SAT model, over the names occ__, teach__ and busy__, which no two
\* indices share in GlpkProblems.
ZTeaching(p, c, v) ==
    /\ OccDefined(c, v.x)
    /\ TeacherAvailability(p, c, v)
    /\ TeacherConflict(p, c, v)
    /\ TeacherCaps(p, c, v)
    /\ MaxConsecutive(p, c, v)
    /\ SubjectMaxPerDay(p, c, v)

\* The valuations [z, a] that satisfy every constraint of the LP.
GlpkFeasible(p, c) ==
    LET zk == ZKeys(p, c)
    IN {lv \in {[z |-> zv, a |-> a] : zv \in ZVals(c, zk), a \in AVals(c)} :
          /\ ZConflicts(p, c, zk, lv.z)
          /\ ZTeaching(p, c, [x |-> ZOcc(c, zk, lv.z), a |-> lv.a])}

\* The objective of the LP (glpk_solver.py 338-407) at its least value for
\* the valuation: a term per non-zero weight, gap and excess variables at
\* their lower bounds.
GlpkObjective(p, c, lv) ==
    LET ov == ObjectiveVars(p, c)
        sums == LeastSums(c, ov, [x |-> ZOcc(c, ZKeys(p, c), lv.z), a |-> lv.a])
    IN SumSeq([i \in 1..Len(Terms) |->
                 IF p.config.weights[Terms[i]] # 0
                 THEN p.config.weights[Terms[i]] * sums[Terms[i]] ELSE 0])

\* solve_with_glpk 509-534: an entry per key of z_name whose variable is
\* 1, sorted by slot; the teacher of each key whose a variable is 1.
GlpkSolution(p, c, lv) ==
    LET zk == ZKeys(p, c)
        on == SelectSeq(zk, LAMBDA t : lv.z[t.eid][ZName(t)] = 1)
    IN [scheduled |->
          SortedBySlot([j \in 1..Len(on) |->
                          [event_id |-> on[j].eid, slot |-> c.slots[on[j].si],
                           room_id |-> on[j].rid]]),
        teacher_assignment |->
          [k \in Range(c.keys) |->
             CHOOSE tid \in Range(c.key_pools[k]) : lv.a[k][tid] = 1],
        objective_value |-> None,
        objective_breakdown |-> <<>>]

\* One requirement of one or two periods on one day, a FIXED teacher or a
\* pool of two, and one room, two rooms, or two rooms whose ids differ in
\* a character that _sanitize replaces.
GlpkProblems ==
    {MkProblem(<<"mon">>, ppd, {},
        <<MkGroup("G1", 20)>>,
        <<MkSubject("MATH", "NORMAL", None)>>,
        <<MkTeacher("T1", {"MATH"}, {}, None, None),
          MkTeacher("T2", {"MATH"}, u2, None, None)>>,
        rooms,
        <<MkReq("G1", "MATH", ppw, maxc, pol.pol, pol.tid, pol.pool, None)>>,
        TRUE) :
       ppd \in {2, 3}, ppw \in {1, 2}, maxc \in {None, Some(1)},
       u2 \in {{}, {Slot("mon", 1)}},
       pol \in {q \in Policies : q.pool = None},
       rooms \in {<<MkRoom("R1", "NORMAL", 30, {})>>,
                  <<MkRoom("R1", "NORMAL", 30, {}),
                    MkRoom("R2", "NORMAL", 30, {Slot("mon", 2)})>>,
                  <<MkRoom("R-1", "NORMAL", 30, {}),
                    MkRoom("R_1", "NORMAL", 30, {})>>}}

BackendInit ==
    /\ problem \in GlpkProblems
    /\ pc = "new"
    /\ report = NoReport
    /\ outcome = NoOutcome
    /\ solution = NoSolution
    /\ values = NoValues
    /\ StoreInit

\* solve_with_glpk when the MILP solver ends with an assignment.
SolveGlpk ==
    /\ pc = "new"
    /\ LET c == _compile_problem(problem)
       IN /\ c.error = ""
          /\ \E lv \in GlpkFeasible(problem, c) :
                /\ values' = lv
                /\ solution' = GlpkSolution(problem, c, lv)
    /\ outcome' = [kind |-> "glpk"]
    /\ pc' = "done"
    /\ UNCHANGED <<problem, report, storevars>>

\* The same problem given to either back-end; only the runs that end with
\* an assignment are kept.
BackendNext == SolveReturn \/ SolveGlpk

BackendSpec == BackendInit /\ [][BackendNext]_vars

\* The complete assignment of a solution: the (event, slot, room) entries
\* and the teacher of every key.
AssignmentOf(sol) ==
    [placed |-> Range(sol.scheduled), teacher |-> sol.teacher_assignment]

\* The least objective value of the CP-SAT model for the valuation v.
CpSatObjective(p, c, v) ==
    ObjectiveValue(p, ObjectiveVars(p, c), LeastSums(c, ObjectiveVars(p, c), v))

\* C26: every complete assignment one back-end returns is feasible in the
\* other back-end's model, with the same objective cost.
C26_BackendsAgree ==
    LET c == _compile_problem(problem)
    IN /\ Returned =>
            \E lv \in GlpkFeasible(problem, c) :
               /\ AssignmentOf(GlpkSolution(problem, c, lv)) = AssignmentOf(solution)
               /\ GlpkObjective(problem, c, lv) = CpSatObjective(problem, c, values)
       /\ (pc = "done" /\ outcome.kind = "glpk") =>
            \E v \in Feasible(problem, c) :
               /\ AssignmentOf(Reconstruct(c, v)) = AssignmentOf(solution)
               /\ CpSatObjective(problem, c, v) = GlpkObjective(problem, c, values)

-----------------------------------------------------------------------------
(* The validator's view of a requirement against the compiler's.           *)

\* The slots behind the indices the compiler stores for an event:
\* tuple(slot_index[s] for s in poss), read back through c.slots.
StoredSlotsOf(c, poss) ==
    [j \in 1..Len(poss) |-> c.slots[c.slot_index[poss[j]]]]

C28_EventIdsPairwiseDistinct ==
    (Reported /\ report.ok) =>
      LET c == _compile_problem(problem)
      IN /\ \A n, m \in 1..Len(c.events) :
              n # m => c.events[n].id # c.events[m].id
         /\ Cardinality(DOMAIN c.allowed_slots) = Len(c.events)
         /\ Cardinality(DOMAIN c.allowed_rooms) = Len(c.events)
         /\ Cardinality(DOMAIN c.event_req_key) = Len(c.events)

-----------------------------------------------------------------------------
(* Properties of the project store under several clients.                  *)

\* The solutions solve_problem may return for the problem p.
SolutionsOf(p) == {r.value : r \in {q \in solve_problem(p) : q.kind = "ok"}}

\* C29: the last_solution of every stored project, when not null, is a
\* solution computed from the problem the project holds now.
C29_LastSolutionIsOfStoredProblem ==
    \A i \in DOMAIN _projects :
       ~IsNone(_projects[i].last_solution) =>
          Val(_projects[i].last_solution) \in SolutionsOf(_projects[i].problem)

\* The places of a call inside "with self._lock".
LockedPcs ==
    {"update_get", "update_assign", "delete_check", "delete_del",
     "set_solution_get", "set_solution_assign"}

\* A step that carries on a call that is under way.
Continue(t) ==
    \/ CreateWrite(t)
    \/ UpdateAcquire(t)
    \/ UpdateGet(t)
    \/ UpdateAssign(t)
    \/ DeleteAcquire(t)
    \/ DeleteCheck(t)
    \/ DeleteDel(t)
    \/ AttachAcquire(t)
    \/ SetSolutionGet(t)
    \/ SetSolutionAssign(t)

\* The lock is held by exactly the call that is inside a with statement,
\* and what that call checked still holds when it writes.
RepoAtomic ==
    \A t \in Threads :
       /\ (calls[t].pc \in LockedPcs) <=> (_lock = t)
       /\ calls[t].pc \in {"update_assign", "set_solution_assign"} =>
             Lookup(_projects, calls[t].id) = calls[t].project
       /\ calls[t].pc = "delete_del" => ~IsNone(Lookup(_projects, calls[t].id))

\* The dict holds the projects a serial run of the calls, in the order in
\* which they left the lock, would hold: one record for each id that was
\* inserted and not deleted, with the last name and problem given to it.
RepoSerialContents ==
    /\ {_projects[i].id : i \in DOMAIN _projects} =
          {id \in 1..Len(ghost) : ghost[id].inserted /\ ~ghost[id].deleted}
    /\ \A i, j \in DOMAIN _projects : _projects[i].id = _projects[j].id => i = j
    /\ \A i \in DOMAIN _projects :
          /\ _projects[i].name = strip(ghost[_projects[i].id].name)
          /\ _projects[i].problem = ghost[_projects[i].id].problem
          /\ _projects[i].last_solution \in {None, Some(TestSolution)}

\* While a call is under way some call under way can take a step.
RepoNoDeadlock ==
    (\E t \in Threads : calls[t].pc # "idle") =>
       \E t \in Threads : calls[t].pc # "idle" /\ ENABLED Continue(t)

\* What one step of the call of thread t does to the dict: the whole
\* effect of the call, on the dict as it is at that step, or nothing.
RepoStepEffect(t) ==
    LET c == calls[t]
        old == Lookup(_projects, c.id)
    IN CASE c.pc = "create_lock" /\ calls'[t].pc = "idle" ->
               /\ IsNone(old)
               /\ _projects' = Append(_projects, Val(c.project))
               /\ calls'[t].result = [kind |-> "ok", value |-> Val(c.project)]
         [] c.pc = "update_assign" ->
               /\ ~IsNone(old)
               /\ calls'[t].result.kind = "ok"
               /\ _projects' = Assign(_projects, c.id, calls'[t].result.value)
               /\ calls'[t].result.value =
                     [Val(old) EXCEPT
                        !.name = IF IsNone(c.name) THEN @ ELSE strip(Val(c.name)),
                        !.problem = IF IsNone(c.problem) THEN @ ELSE Val(c.problem),
                        !.updated_at = calls'[t].result.value.updated_at]
         [] c.pc = "set_solution_assign" ->
               /\ ~IsNone(old)
               /\ calls'[t].result.kind = "ok"
               /\ _projects' = Assign(_projects, c.id, calls'[t].result.value)
               /\ calls'[t].result.value =
                     [Val(old) EXCEPT
                        !.last_solution = c.solution,
                        !.updated_at = calls'[t].result.value.updated_at]
         [] c.pc = "delete_del" ->
               /\ ~IsNone(old)
               /\ calls'[t].result = [kind |-> "ok"]
               /\ _projects' = Del(_projects, c.id)
         [] c.pc \in {"update_get", "set_solution_get", "delete_check"}
              /\ IsNone(old) ->
               /\ calls'[t].pc = "idle"
               /\ calls'[t].result = [kind |-> "NotFoundError", id |-> c.id]
               /\ _projects' = _projects
               /\ _lock' = 0
         [] OTHER -> _projects' = _projects

\* C30: under any interleaving of create, update, delete and set_solution
\* calls of several threads on one repository, every mutation checks and
\* writes under the same lock, the contents are those of a serial order of
\* the calls, some call under way can always go on, a deleted project is
\* never stored again, and an update or set_solution that finds the id
\* deleted ends with NotFoundError and changes nothing.
C30_CallsAreAtomicAndSerial ==
    /\ [](RepoAtomic /\ RepoSerialContents /\ RepoNoDeadlock)
    /\ [][\A t \in Threads : calls'[t] # calls[t] => RepoStepEffect(t)]_vars

\* An update of project 1 by thread 2 ended with NotFoundError after the
\* delete of project 1 by thread 1, and the dict is empty.
C30_Witness ==
    /\ calls[1].op = "delete" /\ calls[1].id = 1
    /\ calls[1].pc = "idle" /\ calls[1].result = [kind |-> "ok"]
    /\ calls[2].op = "update" /\ calls[2].id = 1
    /\ calls[2].pc = "idle" /\ calls[2].result = [kind |-> "NotFoundError", id |-> 1]
    /\ ghost[1].inserted /\ ghost[1].deleted
    /\ _projects = <<>>
    /\ _lock = 0
=============================================================================
